---- MODULE Spec2Model ----
(***************************************************************************)
(* State-machine model of sf::RenderTarget (src/SFML/Graphics/            *)
(* RenderTarget.cpp): the state cache, the two rendering pipelines, the   *)
(* state appliers and the public operations clear / draw / pushGLStates / *)
(* popGLStates / resetGLStates / initialize / setView, and the queries    *)
(* getViewport / mapPixelToCoords / mapCoordsToPixel with exact rational  *)
(* arithmetic.                                                             *)
(*                                                                         *)
(* The graphics device is modelled by the record gl (the OpenGL state the *)
(* target touches), the attribute/matrix stacks by glStack, the uniforms  *)
(* of every shader program by uniforms.  Every operation is an operator   *)
(* on a working state whose field log collects, in order, the external    *)
(* calls the operation makes.                                              *)
(***************************************************************************)
EXTENDS Integers, Sequences, FiniteSets, TLC

(***************************************************************************)
(* Bounds of the model                                                     *)
(***************************************************************************)
MaxView        == 1   \* views are 0 (the default view) .. MaxView
MaxTransform   == 1   \* transforms are 0 (Transform::Identity) .. MaxTransform
MaxBlendMode   == 1   \* blend modes are 0 (BlendAlpha) .. MaxBlendMode, at most 3
MaxPrimType    == 2   \* primitive types are 0 (Points) .. MaxPrimType, at most 6
MaxTexId       == 2   \* texture cache ids handed out: 1 .. MaxTexId
MaxLights      == 1   \* enabled lights: 0 .. MaxLights
ExtraVertices  == 1   \* largest submission: VertexCacheSize + ExtraVertices
Den            == 4   \* viewport rectangles are given in Den-ths of the surface
MaxHalf        == 2   \* points lie 0 .. MaxHalf half units from the surface's edges

(***************************************************************************)
(* Program constants                                                       *)
(***************************************************************************)
VertexCacheSize == 4          \* StatesCache::VertexCacheSize
NullShader      == 0          \* NULL
DefaultShaderAddr == 1        \* where "new Shader" of the target lives
UserShaderAddr  == 2          \* a shader object owned by the caller
MovedShaderAddr == 3          \* where "new Shader" lives if not where it did
TexAddr         == 1          \* the address at which caller textures live
GlslThreshold   == 129        \* 1.29, in hundredths

\* enum BlendMode
BlendAlpha    == 0
BlendAdd      == 1
BlendMultiply == 2
BlendNone     == 3

\* modes[] : PrimitiveType -> GLenum  (GL_POINTS, GL_LINES, GL_LINE_STRIP,
\* GL_TRIANGLES, GL_TRIANGLE_STRIP, GL_TRIANGLE_FAN, GL_QUADS)
modes == <<0, 1, 3, 4, 5, 6, 7>>

\* byte offsets of the members of sf::Vertex and its size
OffPosition == 0
OffColor    == 12
OffTexCoord == 16
OffNormal   == 24
SizeofVertex == 36

Min(a, b) == IF a < b THEN a ELSE b

Views        == 0 .. MaxView
Transforms   == 0 .. MaxTransform
BlendModes   == 0 .. Min(MaxBlendMode, BlendNone)
PrimTypes    == 0 .. Min(MaxPrimType, Len(modes) - 1)
VertexCounts == {0, VertexCacheSize, VertexCacheSize + ExtraVertices}
LightCounts  == 0 .. MaxLights
NoView       == -1     \* m_view == NULL

VARIABLES
    env,        \* capabilities of the platform (constant during a run)
    cache,      \* m_cache
    view,       \* *m_view (NoView while m_view is NULL)
    depthTest,  \* m_depthTest
    defaultShader,            \* m_defaultShader
    currentNonLegacyShader,   \* m_currentNonLegacyShader
    lastNonLegacyShader,      \* m_lastNonLegacyShader
    texture,    \* cache id of the texture living at TexAddr (0: none alive)
    nextTexId,  \* next unique texture id
    gl,         \* device state
    glStack,    \* attribute, client attribute and matrix stacks
    uniforms,   \* shader address -> values of its parameters
    last,       \* the operation of the target that changed the device last
    pushed,     \* the view and the device just before the open pushGLStates
    probe       \* getSize() and the last query of the view geometry

vars == <<env, cache, view, depthTest, defaultShader, currentNonLegacyShader,
          lastNonLegacyShader, texture, nextTexId, gl, glStack, uniforms,
          last, pushed, probe>>

(***************************************************************************)
(* The working state of an operation.  Every operator below maps such a    *)
(* record to the record after the C++ statement(s) it models; the actions  *)
(* at the end of the module copy the fields back into the variables.       *)
(***************************************************************************)
World == [cache |-> cache, view |-> view, depthTest |-> depthTest,
          ds |-> defaultShader, cur |-> currentNonLegacyShader,
          lastSh |-> lastNonLegacyShader, env |-> env,
          gl |-> gl, glStack |-> glStack, uniforms |-> uniforms, log |-> <<>>]

\* one external call: k is its kind
\*   "act"     RenderTarget::activate (result in a)
\*   "applier" entry into one of the apply* members
\*   "gl"      an OpenGL call
\*   "param"   Shader::setParameter (shader in a, value in b)
\*   "bind"    Texture::bind / Shader::bind / VertexBuffer::bind
Entry(k, f, a, b) == [k |-> k, f |-> f, a |-> a, b |-> b]

Emit(w, k, f, a, b) == [w EXCEPT !.log = Append(@, Entry(k, f, a, b))]

\* an OpenGL call f(a, b) whose effect on the device is the new record g
GlCall(w, f, a, b, g) == [Emit(w, "gl", f, a, b) EXCEPT !.gl = g]

\* parameters whose value is kept in the model of a shader program; the
\* others are visible in the log of the operation that sets them
TrackedParams == {"sf_ProjectionMatrix", "sf_ViewMatrix", "sf_Texture0",
                  "sf_TextureEnabled"}

\* Shader::setParameter(name, value) on the shader at address sh
SetParameter(w, sh, name, value) ==
    LET w1 == Emit(w, "param", name, sh, value)
    IN  IF name \in TrackedParams
        THEN [w1 EXCEPT !.uniforms[sh][name] = value]
        ELSE w1

\* matrices: <<1, v, 0>> projection of view v; <<2, v, t>> the product
\* view-transform(v) * transform t; <<0, 0, 0>> the matrix of a fresh context
ProjectionOf(v)   == <<1, v, 0>>
ViewTimes(v, t)   == <<2, v, t>>
FreshMatrix       == <<0, 0, 0>>

\* glLoadMatrixf: replaces the matrix selected by the current matrix mode
glLoadMatrixf(w, m) ==
    LET g == CASE w.gl.matrixMode = "MODELVIEW"  -> [w.gl EXCEPT !.modelView = m]
               [] w.gl.matrixMode = "PROJECTION" -> [w.gl EXCEPT !.projection = m]
               [] OTHER                          -> [w.gl EXCEPT !.textureMatrix = m]
    IN  GlCall(w, "glLoadMatrixf", m[2], m[3], g)

glMatrixMode(w, mode) ==
    GlCall(w, "glMatrixMode", 0, 0, [w.gl EXCEPT !.matrixMode = mode])

\* the shader that receives the parameters of the appliers
ParamShader(w) == IF w.cur # NullShader THEN w.cur ELSE w.ds

\* lines 634-655: the projection, to the pipeline in use
LoadProjection(w) ==
    IF w.ds # NullShader
    THEN SetParameter(w, ParamShader(w), "sf_ProjectionMatrix", w.view)
    ELSE glMatrixMode(glLoadMatrixf(glMatrixMode(w, "PROJECTION"),
                                    ProjectionOf(w.view)),
                      "MODELVIEW")

glViewport(w) == GlCall(w, "glViewport", w.view, 0, [w.gl EXCEPT !.viewport = w.view])

\* variant of ViewApplied that leaves viewChanged set
ViewApplied_Kept(w) == w

\* line 655
ViewApplied(w) == [w EXCEPT !.cache.viewChanged = FALSE]

\* RenderTarget::applyCurrentView
applyCurrentView(w) ==
    ViewApplied(LoadProjection(glViewport(
        Emit(w, "applier", "applyCurrentView", w.view, 0))))

\* variant of BlendFuncFor that uses the separate function for every mode
BlendFuncFor_Separate(mode, separate) == [sep |-> separate, mode |-> mode]

\* the blend function the device ends with: sep is TRUE for
\* glBlendFuncSeparateEXT, FALSE for glBlendFunc
BlendFuncFor(mode, separate) ==
    CASE mode = BlendAdd      -> [sep |-> separate, mode |-> BlendAdd]
      [] mode = BlendMultiply -> [sep |-> FALSE, mode |-> BlendMultiply]
      [] mode = BlendNone     -> [sep |-> FALSE, mode |-> BlendNone]
      [] OTHER                -> [sep |-> separate, mode |-> BlendAlpha]

glBlendFunc(w, bf) ==
    GlCall(w, IF bf.sep THEN "glBlendFuncSeparateEXT" ELSE "glBlendFunc",
           bf.mode, 0, [w.gl EXCEPT !.blendFunc = bf])

\* variant of BlendApplied that records the default mode
BlendApplied_Default(w, mode) == [w EXCEPT !.cache.lastBlendMode = BlendAlpha]

\* line 695
BlendApplied(w, mode) == [w EXCEPT !.cache.lastBlendMode = mode]

\* RenderTarget::applyBlendMode
applyBlendMode(w, mode) ==
    BlendApplied(glBlendFunc(Emit(w, "applier", "applyBlendMode", mode, 0),
                             BlendFuncFor(mode, w.env.blendSeparate)),
                 mode)

\* lines 719-720: the normal matrix, when Light::isLightingEnabled()
SetNormalMatrix(w, sh, transform, lighting) ==
    IF lighting THEN SetParameter(w, sh, "sf_NormalMatrix", transform) ELSE w

\* lines 702-726: the transform, to the pipeline in use
LoadTransform(w, transform, lighting) ==
    IF w.ds # NullShader
    THEN SetNormalMatrix(
           SetParameter(SetParameter(w, ParamShader(w), "sf_ViewMatrix", w.view),
                        ParamShader(w), "sf_ModelMatrix", transform),
           ParamShader(w), transform, lighting)
    ELSE glLoadMatrixf(w, ViewTimes(w.view, transform))

\* RenderTarget::applyTransform; lighting is Light::isLightingEnabled()
applyTransform(w, transform, lighting) ==
    LoadTransform(Emit(w, "applier", "applyTransform", transform, 0),
                  transform, lighting)

\* Texture::bind(texture, Texture::Pixels); tex is the cache id, 0 for NULL
TextureBind(w, tex) ==
    [Emit(w, "bind", "Texture::bind", tex, 0) EXCEPT !.gl.texture = tex]

\* lines 743-767: the texture parameters of the shader pipeline
TextureParams(w, sh, tex) ==
    IF tex # 0
    THEN SetParameter(
           SetParameter(
             SetParameter(w, sh, "sf_TextureMatrix", tex),
             sh, "sf_Texture0", tex),
           sh, "sf_TextureEnabled", 1)
    ELSE SetParameter(w, sh, "sf_TextureEnabled", 0)

\* variant of LoadTexture that binds the texture unit on both pipelines
LoadTexture_AlwaysBind(w, tex) == TextureBind(w, tex)

\* lines 733-772: the texture, to the pipeline in use
LoadTexture(w, tex) ==
    IF w.ds # NullShader THEN TextureParams(w, ParamShader(w), tex)
                         ELSE TextureBind(w, tex)

\* variant of TextureApplied that does not record the texture
TextureApplied_Forgotten(w, tex) == w

\* line 774
TextureApplied(w, tex) == [w EXCEPT !.cache.lastTextureId = tex]

\* RenderTarget::applyTexture; tex is the texture's m_cacheId, 0 for NULL
applyTexture(w, tex) ==
    TextureApplied(LoadTexture(Emit(w, "applier", "applyTexture", tex, 0), tex), tex)

\* Shader::bind(shader); 0 for NULL
ShaderBind(w, shader) ==
    [Emit(w, "bind", "Shader::bind", shader, 0) EXCEPT !.gl.program = shader]

\* RenderTarget::applyShader
applyShader(w, shader) ==
    ShaderBind(Emit(w, "applier", "applyShader", shader, 0), shader)

\* VertexBuffer::bind(buffer); 0 for NULL
VertexBufferBind(w, buffer) ==
    [Emit(w, "bind", "VertexBuffer::bind", buffer, 0) EXCEPT !.gl.arrayBuffer = buffer]

VertexBufferApplied(w, buffer) == [w EXCEPT !.cache.lastVertexBufferId = buffer]

\* RenderTarget::applyVertexBuffer
applyVertexBuffer(w, buffer) ==
    VertexBufferApplied(
      VertexBufferBind(Emit(w, "applier", "applyVertexBuffer", buffer, 0), buffer),
      buffer)

\* RenderTarget::setView: the current view is replaced, the cache is told
setView(w, v) == [w EXCEPT !.view = v, !.cache.viewChanged = TRUE]

\* RenderTarget::getDefaultView (m_defaultView after initialize)
DefaultView == 0

\* RenderTarget::activate(true); ok is its result
Activate(w, ok) == Emit(w, "act", "activate", IF ok THEN 1 ELSE 0, 0)

\* glEnable / glDisable / glEnableClientState of the capability named cap
glSet(w, f, cap, value) ==
    GlCall(w, f, 0, 0, [w.gl EXCEPT ![cap] = value])

\* lines 82-85: the depth test is enabled and set up
DepthTestOn(w) ==
    Emit(Emit(Emit(glSet(w, "glEnable(GL_DEPTH_TEST)", "depthTest", TRUE),
                   "gl", "glDepthFunc", 0, 0),
              "gl", "glClearDepth", 0, 0),
         "gl", "glDepthRangef", 1, 0)

\* RenderTarget::enableDepthTest
enableDepthTest(w, enable) ==
    IF enable THEN DepthTestOn([w EXCEPT !.depthTest = TRUE])
    ELSE glSet([w EXCEPT !.depthTest = FALSE],
               "glDisable(GL_DEPTH_TEST)", "depthTest", FALSE)

\* lines 566-567
DisableDepthTest(w) ==
    IF ~w.depthTest THEN glSet(w, "glDisable(GL_DEPTH_TEST)", "depthTest", FALSE)
                    ELSE w

\* lines 573-581: the states of the legacy pipeline only
LegacyDefaults(w) ==
    glSet(glSet(glSet(glSet(
      glMatrixMode(
        glSet(glSet(glSet(w,
          "glEnable(GL_TEXTURE_2D)", "texture2D", TRUE),
          "glEnable(GL_COLOR_MATERIAL)", "colorMaterial", TRUE),
          "glEnable(GL_NORMALIZE)", "normalize", TRUE),
        "MODELVIEW"),
      "glEnableClientState(GL_VERTEX_ARRAY)", "vertexArray", TRUE),
      "glEnableClientState(GL_COLOR_ARRAY)", "colorArray", TRUE),
      "glEnableClientState(GL_TEXTURE_COORD_ARRAY)", "texCoordArray", TRUE),
      "glEnableClientState(GL_NORMAL_ARRAY)", "normalArray", TRUE)

\* lines 571-582
ResetLegacy(w) == IF w.ds = NullShader THEN LegacyDefaults(w) ELSE w

\* lines 591-597
ResetShader(w) ==
    IF w.env.shader
    THEN (IF w.ds = NullShader THEN applyShader(w, NullShader)
                               ELSE applyShader(w, w.ds))
    ELSE w

\* lines 599-600
ResetVertexBuffer(w) == IF w.env.vbo THEN applyVertexBuffer(w, 0) ELSE w

\* line 604: the view resetGLStates installs at its end
ResetView(w) == setView(w, DefaultView)

\* lines 564-570 and 583: the persistent states of both pipelines
DefineStates(w) ==
    glSet(glSet(glSet(DisableDepthTest(
      glSet(w, "glDisable(GL_LIGHTING)", "lighting", FALSE)),
      "glDisable(GL_ALPHA_TEST)", "alphaTest", FALSE),
      "glEnable(GL_CULL_FACE)", "cullFace", TRUE),
      "glEnable(GL_BLEND)", "blend", TRUE)

PolygonFill(w) ==
    glSet(w, "glPolygonMode(GL_FRONT_AND_BACK, GL_FILL)", "polygonFill", TRUE)

StatesSet(w) == [w EXCEPT !.cache.glStatesSet = TRUE]

NoVertexCache(w) == [w EXCEPT !.cache.useVertexCache = FALSE]

\* lines 564-604: resetGLStates on an active target
ResetStates(w, lighting) ==
    ResetView(NoVertexCache(ResetVertexBuffer(ResetShader(
      applyTexture(
        applyTransform(
          applyBlendMode(StatesSet(PolygonFill(ResetLegacy(DefineStates(w)))),
                         BlendAlpha),
          0, lighting),
        0)))))

\* variant of resetGLStates that ignores the result of activate
resetGLStates_Unguarded(w, act, lighting) == ResetStates(Activate(w, act), lighting)

\* RenderTarget::resetGLStates; act is what activate(true) returns,
\* lighting is Light::isLightingEnabled()
resetGLStates(w, act, lighting) ==
    IF act THEN ResetStates(Activate(w, TRUE), lighting) ELSE Activate(w, FALSE)

\* variant of FirstDrawReset that resets the states in every draw
FirstDrawReset_Always(w, act2, lighting) == resetGLStates(w, act2, lighting)

\* lines 327-328 / 177-178: the persistent states are set on the first draw
FirstDrawReset(w, act2, lighting) ==
    IF ~w.cache.glStatesSet THEN resetGLStates(w, act2, lighting) ELSE w

\* lines 335-344 / 185-194: the shader whose uniforms the draw sets
ResolveShader(w, shader) ==
    IF w.ds # NullShader
    THEN IF shader # NullShader
         THEN [Emit(w, "shader", "warnMissing", shader, 0) EXCEPT !.cur = shader]
         ELSE [w EXCEPT !.cur = w.ds]
    ELSE w

\* line 346 / 196: shaderChanged, evaluated after ResolveShader
ShaderChanged(w) == w.ds # NullShader /\ w.cur # w.lastSh

\* variant of UseVertexCache that forgets the pipeline in use
UseVertexCache_AnyPipeline(w, count, st) ==
    count <= VertexCacheSize /\ st.useVertexCache

\* line 350: does this draw pre-transform its vertices ?
UseVertexCache(w, count, st) ==
    w.ds = NullShader /\ count <= VertexCacheSize /\ st.useVertexCache

\* variant of NeedsView that forgets viewChanged
NeedsView_ShaderOnly(w, shaderChanged) == shaderChanged

\* lines 373 / 202
NeedsView(w, shaderChanged) == shaderChanged \/ w.cache.viewChanged

\* variant of NeedsBlendMode without the cache
NeedsBlendMode_Always(w, st) == TRUE

\* lines 377 / 206
NeedsBlendMode(w, st) == st.blendMode # w.cache.lastBlendMode

\* the address of the texture with cache id tex: textures live at TexAddr
AddressOf(tex) == IF tex = 0 THEN 0 ELSE TexAddr

\* variant of NeedsTexture that compares addresses, not cache ids
NeedsTexture_ByAddress(w, st, shaderChanged) ==
    shaderChanged \/ AddressOf(st.texture) # AddressOf(w.cache.lastTextureId)

\* lines 381-382 / 210-211: the cache is compared on the texture's m_cacheId
NeedsTexture(w, st, shaderChanged) ==
    shaderChanged \/ st.texture # w.cache.lastTextureId

\* lines 373-374 / 202-203
ApplyView(w, shaderChanged) ==
    IF NeedsView(w, shaderChanged) THEN applyCurrentView(w) ELSE w

\* lines 377-378 / 206-207
ApplyBlend(w, st) ==
    IF NeedsBlendMode(w, st) THEN applyBlendMode(w, st.blendMode) ELSE w

\* lines 381-383 / 210-212
ApplyTexture(w, st, shaderChanged) ==
    IF NeedsTexture(w, st, shaderChanged) THEN applyTexture(w, st.texture) ELSE w

\* lines 386-389 / 215-218
ApplyShader(w, st) ==
    IF st.shader # NullShader THEN applyShader(w, st.shader)
    ELSE IF w.ds # NullShader THEN applyShader(w, w.ds)
    ELSE w

\* lines 372-389 / 201-218: view, blend mode, texture and shader
ApplyStates(w, st, shaderChanged) ==
    ApplyShader(ApplyTexture(ApplyBlend(ApplyView(w, shaderChanged), st),
                             st, shaderChanged),
                st)

\* lines 427-437 / 243-253: the lighting parameters of the shader pipeline;
\* nLights is Light::getEnabledLights().size()
RECURSIVE AddLights(_, _, _)
AddLights(w, sh, n) ==
    IF n = 0 THEN w
    ELSE Emit(AddLights(w, sh, n - 1), "param", "Light::addToShader", sh, n)

\* variant of PushLighting that takes the lighting branch in every draw
PushLighting_Unconditional(w, lighting, nLights) ==
    SetParameter(AddLights(SetParameter(w, w.cur, "sf_LightCount", nLights),
                           w.cur, nLights),
                 w.cur, "sf_ViewerPosition", w.view)

PushLighting(w, lighting, nLights) ==
    IF lighting
    THEN SetParameter(AddLights(SetParameter(w, w.cur, "sf_LightCount", nLights),
                                w.cur, nLights),
                      w.cur, "sf_ViewerPosition", w.view)
    ELSE SetParameter(w, w.cur, "sf_LightCount", 0)

\* the four vertex attributes in the order the code binds them:
\* <<fixed-function call, attribute name, byte offset>>
Attributes == << <<"glVertexPointer",   "sf_Vertex",         OffPosition>>,
                 <<"glColorPointer",    "sf_Color",          OffColor>>,
                 <<"glTexCoordPointer", "sf_MultiTexCoord0", OffTexCoord>>,
                 <<"glNormalPointer",   "sf_Normal",         OffNormal>> >>

\* bases of vertex data: BaseNone is the null pointer (offsets into the bound
\* buffer), BaseArray the caller's array, BaseCache m_cache.vertexCache
BaseNone  == 0
BaseArray == 1
BaseCache == 2

\* lines 416-419 / 233-236: fixed-function pointers, all on the same base
RECURSIVE LegacyPointers(_, _, _)
LegacyPointers(w, base, i) ==
    IF i = 0 THEN w
    ELSE Emit(LegacyPointers(w, base, i - 1), "gl", Attributes[i][1], base, Attributes[i][3])

PointersSet(w, base) == [w EXCEPT !.gl.pointerBase = base]

SetLegacyPointers(w, base) ==
    PointersSet(LegacyPointers(w, base, Len(Attributes)), base)

\* the base the shader pipeline passes for attribute i: line 449 passes 0 for
\* sf_Vertex, lines 455-467 pass data + offset
AttribBase(i, base) == IF i = 1 THEN BaseNone ELSE base

\* lines 446-468 / 260-282: the generic array of attribute i, when located
EnableAttrib(w, base, located, i) ==
    IF located
    THEN Emit(Emit(w, "gl", "glEnableVertexAttribArrayARB", i, 0),
              "gl", "glVertexAttribPointerARB", AttribBase(i, base), Attributes[i][3])
    ELSE w

RECURSIVE EnableAttribs(_, _, _, _)
EnableAttribs(w, base, located, i) ==
    IF i = 0 THEN w
    ELSE EnableAttrib(EnableAttribs(w, base, located, i - 1), base, located, i)

\* lines 473-483 / 287-297
DisableAttrib(w, located, i) ==
    IF located THEN Emit(w, "gl", "glDisableVertexAttribArrayARB", i, 0) ELSE w

RECURSIVE DisableAttribs(_, _, _)
DisableAttribs(w, located, i) ==
    IF i = 0 THEN w
    ELSE DisableAttrib(DisableAttribs(w, located, i - 1), located, i)

\* variant of glDrawArrays that passes the primitive type where the GLenum goes
glDrawArrays_RawType(w, type, count) == Emit(w, "gl", "glDrawArrays", type, count)

\* glDrawArrays(mode, 0, count)
glDrawArrays(w, type, count) == Emit(w, "gl", "glDrawArrays", modes[type + 1], count)

\* variant of UnbindLegacyShader that leaves the override shader bound
UnbindLegacyShader_Never(w, st) == w

\* lines 486-488 / 300-302
UnbindLegacyShader(w, st) ==
    IF st.shader # NullShader /\ w.ds = NullShader
    THEN applyShader(w, NullShader) ELSE w

\* variant of RestoreWarn that switches the warning on again
RestoreWarn_On(w, st, warn) ==
    IF w.ds # NullShader /\ st.shader # NullShader
    THEN Emit(w, "shader", "warnMissing", st.shader, 1)
    ELSE w

\* lines 495-496 / 306-307; warn is the setting warnMissing(false) returned
RestoreWarn(w, st, warn) ==
    IF w.ds # NullShader /\ st.shader # NullShader
    THEN Emit(w, "shader", "warnMissing", st.shader, IF warn THEN 1 ELSE 0)
    ELSE w

\* lines 498-499 / 309-310
RecordShader(w) ==
    IF w.ds # NullShader THEN [w EXCEPT !.lastSh = w.cur, !.cur = NullShader]
                         ELSE w

\* lines 486-500 / 300-311: what follows the draw call
FinishDraw(w, st, warn) ==
    RecordShader(RestoreWarn(UnbindLegacyShader(w, st), st, warn))

\* inputs an operation reads from its environment while it runs:
\*   act      result of activate(true) in the operation itself
\*   act2     result of activate(true) inside a nested resetGLStates
\*   lighting Light::isLightingEnabled()
\*   nLights  Light::getEnabledLights().size()
\*   located  Shader::getVertexAttributeLocation finds the sf_* attributes
\*   warn     the override shader's setting returned by warnMissing(false)
NoInput == [act |-> TRUE, act2 |-> TRUE, lighting |-> FALSE, nLights |-> 0,
            located |-> TRUE, warn |-> TRUE]

\* lines 354-361: the vertices are copied, transformed, into the vertex cache
FillVertexCache(w, count, st) == Emit(w, "mem", "vertexCache", count, st.transform)

\* lines 364-365
IdentityTransform(w, lighting) ==
    IF ~w.cache.useVertexCache THEN applyTransform(w, 0, lighting) ELSE w

\* lines 349-370: the model transform of an array draw
ArrayTransform(w, count, st, in) ==
    IF UseVertexCache(w, count, st)
    THEN IdentityTransform(FillVertexCache(w, count, st), in.lighting)
    ELSE applyTransform(w, st.transform, in.lighting)

\* lines 395-403: where the vertex pointers of an array draw point;
\* BaseNone stands for vertices = NULL (the pointers are not set again)
ArrayBase(w, count, st) ==
    IF UseVertexCache(w, count, st)
    THEN (IF ~w.cache.useVertexCache THEN BaseCache ELSE BaseNone)
    ELSE BaseArray

\* lines 413-420
ArrayPointers(w, base) ==
    IF base # BaseNone THEN SetLegacyPointers(w, base) ELSE w

\* lines 427-483 / 243-297: the draw call of the shader pipeline
ShaderDrawCall(w, base, type, count, in) ==
    DisableAttribs(
      glDrawArrays(
        EnableAttribs(PushLighting(w, in.lighting, in.nLights),
                      base, in.located, Len(Attributes)),
        type, count),
      in.located, Len(Attributes))

\* lines 411-484: pointers, lighting parameters and the draw call
ArrayDrawCall(w, base, type, count, in) ==
    IF w.ds = NullShader
    THEN glDrawArrays(ArrayPointers(w, base), type, count)
    ELSE ShaderDrawCall(w, base, type, count, in)

\* variant of UnbindVertexBuffer that leaves the vertex buffer bound
UnbindVertexBuffer_Never(w) == w

\* lines 391-393
UnbindVertexBuffer(w) ==
    IF w.cache.lastVertexBufferId # 0 THEN applyVertexBuffer(w, 0) ELSE w

\* line 491
CacheUpdated(w, count, st) ==
    [w EXCEPT !.cache.useVertexCache = UseVertexCache(w, count, st)]

\* lines 395-484: from the unbinding of the vertex buffer to the draw call
ArraySubmit(w, count, type, st, in) ==
    ArrayDrawCall(w, ArrayBase(w, count, st), type, count, in)

\* lines 346-500: an array draw once its shader is resolved
ArrayDraw(w, count, type, st, in) ==
    CacheUpdated(
      FinishDraw(
        ArraySubmit(
          UnbindVertexBuffer(
            ApplyStates(ArrayTransform(w, count, st, in), st, ShaderChanged(w))),
          count, type, st, in),
        st, in.warn),
      count, st)

\* variant of NothingToDraw that forgets the vertex count
NothingToDraw_NullOnly(ptr, count) == ~ptr

\* lines 321-322: nothing to draw ?  ptr: vertices is not null
NothingToDraw(ptr, count) == ~ptr \/ count = 0

\* RenderTarget::draw(const Vertex*, unsigned int, PrimitiveType, const RenderStates&)
drawVertices(w, ptr, count, type, st, in) ==
    IF NothingToDraw(ptr, count) THEN w
    ELSE IF ~in.act THEN Activate(w, FALSE)
    ELSE ArrayDraw(
           ResolveShader(FirstDrawReset(Activate(w, TRUE), in.act2, in.lighting),
                         st.shader),
           count, type, st, in)

\* lines 220-223
BindVertexBuffer(w, buf) ==
    IF buf.id # w.cache.lastVertexBufferId THEN applyVertexBuffer(w, buf.id) ELSE w

\* lines 230-298
BufferDrawCall(w, buf, in) ==
    IF w.ds = NullShader
    THEN glDrawArrays(SetLegacyPointers(w, BaseNone), buf.type, buf.count)
    ELSE ShaderDrawCall(w, BaseNone, buf.type, buf.count, in)

\* lines 196-311: a buffer draw once its shader is resolved
BufferDraw(w, buf, st, in) ==
    FinishDraw(
      BufferDrawCall(
        BindVertexBuffer(
          ApplyStates(applyTransform(w, st.transform, in.lighting), st,
                      ShaderChanged(w)),
          buf),
        buf, in),
      st, in.warn)

\* RenderTarget::draw(const VertexBuffer&, const RenderStates&)
\* buf: [id |-> m_cacheId, count |-> getVertexCount(), type |-> getPrimitiveType()]
drawVertexBuffer(w, buf, st, in) ==
    IF buf.count = 0 THEN w
    ELSE IF ~in.act THEN Activate(w, FALSE)
    ELSE BufferDraw(
           ResolveShader(FirstDrawReset(Activate(w, TRUE), in.act2, in.lighting),
                         st.shader),
           buf, st, in)

\* RenderTarget::clear; clearDepth is m_clearDepth
clear(w, clearDepth, in) ==
    IF in.act
    THEN Emit(Emit(Activate(w, TRUE), "gl", "glClearColor", 0, 0),
              "gl", "glClear", IF clearDepth THEN 1 ELSE 0, 0)
    ELSE Activate(w, FALSE)

\* what glPushClientAttrib, glPushAttrib and the three glPushMatrix save:
\* all of the device state of the model but the bound program
Saved(g) == [g EXCEPT !.program = NullShader]

\* lines 520-528: the device pushes its attributes and its matrices
PushDevice(w) ==
    [Emit(glMatrixMode(
       Emit(glMatrixMode(
         Emit(glMatrixMode(
           Emit(Emit(w, "gl", "glPushClientAttrib", 0, 0), "gl", "glPushAttrib", 0, 0),
           "MODELVIEW"), "gl", "glPushMatrix", 0, 0),
         "PROJECTION"), "gl", "glPushMatrix", 0, 0),
       "TEXTURE"), "gl", "glPushMatrix", 0, 0)
     EXCEPT !.glStack = Append(@, Saved(w.gl))]

\* RenderTarget::pushGLStates
pushGLStates(w, in) ==
    resetGLStates(IF in.act THEN PushDevice(Activate(w, TRUE))
                            ELSE Activate(w, FALSE),
                  in.act2, in.lighting)

\* lines 540-541
UnbindShader(w) == IF w.ds # NullShader THEN applyShader(w, NullShader) ELSE w

\* lines 543-550: the device pops its matrices and its attributes; the bound
\* program is not among them
PopCalls(w) ==
    Emit(Emit(
      Emit(glMatrixMode(
        Emit(glMatrixMode(
          Emit(glMatrixMode(w, "PROJECTION"), "gl", "glPopMatrix", 0, 0),
          "MODELVIEW"), "gl", "glPopMatrix", 0, 0),
        "TEXTURE"), "gl", "glPopMatrix", 0, 0),
      "gl", "glPopClientAttrib", 0, 0), "gl", "glPopAttrib", 0, 0)

\* popping empty stacks is an OpenGL error that changes nothing
PopDevice(w) ==
    IF w.glStack = <<>> THEN [PopCalls(w) EXCEPT !.gl = w.gl]
    ELSE [PopCalls(w)
            EXCEPT !.gl = [w.glStack[Len(w.glStack)] EXCEPT !.program = w.gl.program],
                   !.glStack = SubSeq(@, 1, Len(@) - 1)]

\* RenderTarget::popGLStates
popGLStates(w, in) ==
    IF in.act THEN PopDevice(UnbindShader(Activate(w, TRUE)))
              ELSE Activate(w, FALSE)

\* what setupNonLegacyPipeline learns from its environment:
\*   lighting  Light::hasShaderLighting()
\*   version   the number read from Shader::getSupportedVersion(), in hundredths
\*   legacyGL  the build defines SFML_LEGACY_GL
\*   compiles  loadFromMemory succeeds on the default program pair
Driver(l, v, b, c) == [lighting |-> l, version |-> v, legacyGL |-> b, compiles |-> c]

\* variant of setupNonLegacyPipeline that accepts the threshold version itself
setupNonLegacyPipeline_AtLeast(drv) ==
    IF ~drv.lighting THEN NullShader
    ELSE LET versionNumber == IF drv.legacyGL THEN 0 ELSE drv.version
         IN  IF versionNumber >= GlslThreshold
             THEN (IF drv.compiles THEN DefaultShaderAddr ELSE NullShader)
             ELSE NullShader

\* RenderTarget::setupNonLegacyPipeline: the address of the default shader,
\* NullShader when the target stays on the legacy pipeline
setupNonLegacyPipeline(drv) ==
    IF ~drv.lighting THEN NullShader
    ELSE LET versionNumber == IF drv.legacyGL THEN 0 ELSE drv.version
         IN  IF versionNumber > GlslThreshold
             THEN (IF drv.compiles THEN DefaultShaderAddr ELSE NullShader)
             ELSE NullShader

(***************************************************************************)
(* Platforms: what the capability probes answer during the life of the     *)
(* target.  shader is Shader::isAvailable(), vbo is                        *)
(* VertexBuffer::isAvailable(), blendSeparate is                           *)
(* GLEW_EXT_blend_func_separate.                                           *)
(***************************************************************************)
Platform(s, b, e) == [shader |-> s, vbo |-> b, blendSeparate |-> e]

Platforms == { Platform(TRUE, TRUE, TRUE), Platform(FALSE, FALSE, FALSE) }

Versions == {0, GlslThreshold, GlslThreshold + 1}

\* shader lighting needs shaders
Drivers(e) ==
    { Driver(l, v, b, c) : l \in {x \in BOOLEAN : x => e.shader},
                           v \in Versions, b \in BOOLEAN, c \in BOOLEAN }

\* the device state of a fresh OpenGL context
FreshGL == [lighting |-> FALSE, depthTest |-> FALSE, alphaTest |-> FALSE,
            cullFace |-> FALSE, blend |-> FALSE, texture2D |-> FALSE,
            colorMaterial |-> FALSE, normalize |-> FALSE,
            vertexArray |-> FALSE, colorArray |-> FALSE,
            texCoordArray |-> FALSE, normalArray |-> FALSE,
            polygonFill |-> TRUE, matrixMode |-> "MODELVIEW",
            modelView |-> FreshMatrix, projection |-> FreshMatrix,
            textureMatrix |-> FreshMatrix, viewport |-> NoView,
            blendFunc |-> [sep |-> FALSE, mode |-> BlendNone],
            texture |-> 0, program |-> NullShader, arrayBuffer |-> 0,
            pointerBase |-> BaseNone]

ShaderAddrs == {DefaultShaderAddr, UserShaderAddr, MovedShaderAddr}
FreshUniforms == [p \in TrackedParams |-> -1]

DefaultStates == [transform |-> 0, blendMode |-> BlendAlpha, texture |-> 0,
                  shader |-> NullShader, useVertexCache |-> FALSE]

\* lines 335-344: the shader a draw resolves (none on the legacy pipeline)
EffectiveShader(ds, st) ==
    IF ds = NullShader THEN NullShader
    ELSE IF st.shader # NullShader THEN st.shader ELSE ds

(***************************************************************************)
(* View geometry: getViewport and the mappings between pixels and world    *)
(* coordinates.  A float is modelled by the rational <<n, d>>, d > 0, it    *)
(* would be without rounding; static_cast<int> truncates toward zero.      *)
(***************************************************************************)
Abs(n) == IF n < 0 THEN -n ELSE n

RECURSIVE Gcd(_, _)
Gcd(a, b) == IF b = 0 THEN a ELSE Gcd(b, a % b)

Reduced(n, d, g) == <<n \div g, d \div g>>
Q(n, d)    == Reduced(n, d, Gcd(Abs(n), d))
QInt(k)    == <<k, 1>>
QAdd(a, b) == Q(a[1] * b[2] + b[1] * a[2], a[2] * b[2])
QSub(a, b) == Q(a[1] * b[2] - b[1] * a[2], a[2] * b[2])
QMul(a, b) == Q(a[1] * b[1], a[2] * b[2])
QNeg(a)    == <<-a[1], a[2]>>
\* a / b for b # 0
QDiv(a, b) == IF b[1] > 0 THEN Q(a[1] * b[2], a[2] * b[1])
                          ELSE Q(-(a[1] * b[2]), -(a[2] * b[1]))
QLess(a, b) == a[1] * b[2] < b[1] * a[2]

\* static_cast<int>(float)
Trunc(a) == IF a[1] >= 0 THEN a[1] \div a[2] ELSE -((-a[1]) \div a[2])

\* a sf::View: its viewport (a FloatRect of ratios), its center and its size
ViewGeometry(vp, center, size) == [viewport |-> vp, center |-> center, size |-> size]

Rect(l, t, w, h) == [left |-> l, top |-> t, width |-> w, height |-> h]

\* line 613: m_defaultView.reset(FloatRect(0, 0, getSize().x, getSize().y))
DefaultGeometry(size) ==
    ViewGeometry(Rect(QInt(0), QInt(0), QInt(1), QInt(1)),
                 <<Q(size[1], 2), Q(size[2], 2)>>,
                 <<QInt(size[1]), QInt(size[2])>>)

\* the view with id v: the default view for DefaultView, else a view of the
\* caller that shows a shifted part of the world in half of the surface
ViewOf(v, size) ==
    IF v = DefaultView THEN DefaultGeometry(size)
    ELSE ViewGeometry(Rect(Q(1, Den), Q(1, Den), Q(1, 2), Q(1, 2)),
                      <<Q(size[1] + 2 * v, 2), Q(size[2] + 2 * v, 2)>>,
                      <<QInt(size[1]), QInt(size[2])>>)

\* variant of getViewport that truncates the origin as it does the extent
getViewport_Truncated(size, vw) ==
    Rect(Trunc(QMul(QInt(size[1]), vw.viewport.left)),
         Trunc(QMul(QInt(size[2]), vw.viewport.top)),
         Trunc(QMul(QInt(size[1]), vw.viewport.width)),
         Trunc(QMul(QInt(size[2]), vw.viewport.height)))

\* RenderTarget::getViewport; size is getSize()
getViewport(size, vw) ==
    Rect(Trunc(QAdd(Q(1, 2), QMul(QInt(size[1]), vw.viewport.left))),
         Trunc(QAdd(Q(1, 2), QMul(QInt(size[2]), vw.viewport.top))),
         Trunc(QMul(QInt(size[1]), vw.viewport.width)),
         Trunc(QMul(QInt(size[2]), vw.viewport.height)))

\* (View::getTransform() * View::getViewTransform()).transformPoint: world
\* coordinates to normalized device coordinates
ToNormalized(vw, p) ==
    <<QDiv(QMul(QInt(2), QSub(p[1], vw.center[1])), vw.size[1]),
      QNeg(QDiv(QMul(QInt(2), QSub(p[2], vw.center[2])), vw.size[2]))>>

\* View::getInverseTransform().transformPoint: back to world coordinates
FromNormalized(vw, n) ==
    <<QAdd(vw.center[1], QDiv(QMul(n[1], vw.size[1]), QInt(2))),
      QSub(vw.center[2], QDiv(QMul(n[2], vw.size[2]), QInt(2)))>>

\* lines 131-134: the pixel in homogeneous coordinates
PixelToNormalized(point, viewport) ==
    <<QAdd(QInt(-1), QDiv(QMul(QInt(2), QInt(point[1] - viewport.left)),
                          QInt(viewport.width))),
      QSub(QInt(1), QDiv(QMul(QInt(2), QInt(point[2] - viewport.top)),
                         QInt(viewport.height)))>>

\* RenderTarget::mapPixelToCoords(const Vector2i&, const View&)
mapPixelToCoords(size, point, vw) ==
    FromNormalized(vw, PixelToNormalized(point, getViewport(size, vw)))

\* variant of NormalizedToPixel that rounds to the nearest pixel
NormalizedToPixel_Rounded(n, viewport) ==
    <<Trunc(QAdd(Q(1, 2),
                 QAdd(QMul(QDiv(QAdd(n[1], QInt(1)), QInt(2)), QInt(viewport.width)),
                      QInt(viewport.left)))),
      Trunc(QAdd(Q(1, 2),
                 QAdd(QMul(QDiv(QAdd(QNeg(n[2]), QInt(1)), QInt(2)), QInt(viewport.height)),
                      QInt(viewport.top))))>>

\* lines 153-156: normalized device coordinates to the pixel
NormalizedToPixel(n, viewport) ==
    <<Trunc(QAdd(QMul(QDiv(QAdd(n[1], QInt(1)), QInt(2)), QInt(viewport.width)),
                 QInt(viewport.left))),
      Trunc(QAdd(QMul(QDiv(QAdd(QNeg(n[2]), QInt(1)), QInt(2)), QInt(viewport.height)),
                 QInt(viewport.top)))>>

\* RenderTarget::mapCoordsToPixel(const Vector3f&, const View&); the point is
\* given by its x and y
mapCoordsToPixel(size, point, vw) ==
    NormalizedToPixel(ToNormalized(vw, point), getViewport(size, vw))

\* lines 121-124 / 141-144: the view of the overloads without a view, getView()
CurrentGeometry(v, size) == ViewOf(v, size)

\* what is remembered of the operation that changed the device last: its
\* name and, for a draw, its blend mode, texture id, buffer id and
\* effective shader.  Operations skipped as empty or for a failed
\* activation, clear and setView leave the record alone.
OpRecord(op) ==
    [op |-> op, blendMode |-> BlendAlpha, texture |-> 0, buf |-> 0,
     eff |-> NullShader, prev |-> NullShader, fresh |-> {}]

\* the record of an operation that is not an executed draw: prev, the
\* effective shader of the last executed draw, and fresh, the shader
\* instances created since, are carried over
Carried(l) == [l EXCEPT !.prev = last.prev, !.fresh = last.fresh]

\* does the draw d = <<submission, states, inputs>> get to its draw call ?
Executes(d) == d[1].ptr /\ d[1].count # 0 /\ d[3].act

DrawRecord(d) ==
    IF Executes(d)
    THEN [op |-> "draw", blendMode |-> d[2].blendMode,
          texture |-> d[2].texture, buf |-> d[1].buf,
          eff |-> EffectiveShader(defaultShader, d[2]),
          prev |-> EffectiveShader(defaultShader, d[2]), fresh |-> {}]
    ELSE last

\* nothing is pushed
NotPushed == [view |-> NoView, gl |-> FreshGL]

\* the surface of the target, getSize(), and no query made yet
Unprobed(size) ==
    [op |-> "none", size |-> size, arg |-> NoView,
     vw |-> DefaultGeometry(size), in |-> <<0, 0>>, out |-> <<0, 0>>]

\* RenderTarget::RenderTarget on a fresh context; the caller owns one texture
InitTarget ==
    /\ env \in Platforms
    /\ cache = [glStatesSet |-> FALSE, lastBlendMode |-> BlendAlpha,
                lastTextureId |-> 0, lastVertexBufferId |-> 0,
                viewChanged |-> FALSE, useVertexCache |-> FALSE]
    /\ view = NoView
    /\ depthTest = FALSE
    /\ defaultShader = NullShader
    /\ currentNonLegacyShader = NullShader
    /\ lastNonLegacyShader = NullShader
    /\ texture = 1
    /\ nextTexId = 2
    /\ gl = FreshGL
    /\ glStack = <<>>
    /\ uniforms = [sh \in ShaderAddrs |-> FreshUniforms]
    /\ last = OpRecord("none")
    /\ pushed = NotPushed

\* a target on a surface of 800 x 600
Init == InitTarget /\ probe = Unprobed(<<800, 600>>)

\* an operation ends: its working state becomes the state of the target
Commit(r, l) ==
    /\ cache' = r.cache
    /\ view' = r.view
    /\ currentNonLegacyShader' = r.cur
    /\ lastNonLegacyShader' = r.lastSh
    /\ gl' = r.gl
    /\ glStack' = r.glStack
    /\ uniforms' = r.uniforms
    /\ defaultShader' = r.ds
    /\ last' = l
    /\ UNCHANGED <<env, depthTest, texture, nextTexId>>

\* RenderTarget::initialize
Initialize ==
    /\ view = NoView
    /\ \E drv \in Drivers(env) : defaultShader' = setupNonLegacyPipeline(drv)
    /\ view' = DefaultView
    /\ cache' = [cache EXCEPT !.glStatesSet = FALSE]
    /\ last' = OpRecord("initialize")
    /\ UNCHANGED <<env, depthTest, currentNonLegacyShader, lastNonLegacyShader,
                   texture, nextTexId, gl, glStack, uniforms, pushed, probe>>

\* RenderTarget::setView, called by the user of the target
SetView ==
    /\ view # NoView
    /\ \E v \in Views : Commit(setView(World, v), last)
    /\ UNCHANGED <<pushed, probe>>

\* the textures a submission can name: none, or the one alive at TexAddr
LiveTextures == {0} \cup (IF texture # 0 THEN {texture} ELSE {})

RenderStatesSet ==
    [transform : Transforms, blendMode : BlendModes, texture : LiveTextures,
     shader : {NullShader, UserShaderAddr}, useVertexCache : BOOLEAN]

\* the render states whose draws differ on the pipeline in use: an override
\* shader is bound and unbound again by the legacy pipeline, the shader
\* pipeline never pre-transforms
PipelineStates ==
    { st \in RenderStatesSet :
        IF defaultShader = NullShader THEN st.shader = NullShader
                                      ELSE ~st.useVertexCache }

\* activate(true) succeeds; inside the resetGLStates of a first draw it may
\* still fail
Activated ==
    {NoInput} \cup (IF cache.glStatesSet THEN {} ELSE {[NoInput EXCEPT !.act2 = FALSE]})
\* activate(true) fails during the whole operation
NotActivated == [NoInput EXCEPT !.act = FALSE, !.act2 = FALSE]

LightingInputs ==
    { [NoInput EXCEPT !.lighting = TRUE, !.nLights = n] : n \in LightCounts }

ShaderInputs ==
    { [NoInput EXCEPT !.located = FALSE], [NoInput EXCEPT !.warn = FALSE] }

OtherStates ==
    {DefaultStates, [DefaultStates EXCEPT !.shader = UserShaderAddr],
     [DefaultStates EXCEPT !.useVertexCache = TRUE]}

ArraySub(ptr, count, type) ==
    [src |-> "array", ptr |-> ptr, count |-> count, type |-> type, buf |-> 0]

SmallArray == ArraySub(TRUE, VertexCacheSize, 0)

\* the draws of vertex arrays the model explores: <<submission, states, inputs>>
ArrayDraws ==
       \* every render state on a small array
       { <<SmallArray, st, in>> : st \in PipelineStates, in \in Activated }
  \cup \* arrays too large for the vertex cache
       { <<ArraySub(TRUE, c, 0), st, NoInput>> :
           c \in VertexCounts \ {0, VertexCacheSize},
           st \in {x \in RenderStatesSet : x.useVertexCache /\ x.shader = NullShader} }
  \cup \* every primitive type
       { <<ArraySub(TRUE, VertexCacheSize, t), DefaultStates, NoInput>> : t \in PrimTypes }
  \cup \* nothing to draw
       { <<ArraySub(e[1], e[2], 0), DefaultStates, NoInput>> :
           e \in {x \in BOOLEAN \X VertexCounts : ~x[1] \/ x[2] = 0} }
  \cup \* activation fails
       { <<SmallArray, st, NotActivated>> : st \in OtherStates }
  \cup \* lighting and shader attributes
       { <<SmallArray, st, in>> :
           st \in OtherStates, in \in LightingInputs \cup ShaderInputs }

DoDrawVertices(w, d) == drawVertices(w, d[1].ptr, d[1].count, d[1].type, d[2], d[3])

DrawVertices ==
    /\ view # NoView
    /\ \E d \in ArrayDraws : Commit(DoDrawVertices(World, d), DrawRecord(d))
    /\ UNCHANGED <<pushed, probe>>

\* the vertex buffers of the caller: cache id 1 holds vertices, cache id 2 none
BufferSub(id, count, type) ==
    [src |-> "buffer", ptr |-> TRUE, count |-> count, type |-> type, buf |-> id]

FullBuffer  == BufferSub(1, VertexCacheSize, Min(1, MaxPrimType))
EmptyBuffer == BufferSub(2, 0, 0)

BufferDraws ==
       { <<FullBuffer, st, in>> :
           st \in {x \in PipelineStates : ~x.useVertexCache}, in \in Activated }
  \cup { <<EmptyBuffer, DefaultStates, NoInput>> }
  \cup { <<FullBuffer, st, NotActivated>> : st \in OtherStates }
  \cup { <<FullBuffer, st, in>> :
           st \in OtherStates, in \in LightingInputs \cup ShaderInputs }

DoDrawVertexBuffer(w, d) ==
    drawVertexBuffer(w, [id |-> d[1].buf, count |-> d[1].count, type |-> d[1].type],
                     d[2], d[3])

DrawVertexBuffer ==
    /\ view # NoView
    /\ \E d \in BufferDraws : Commit(DoDrawVertexBuffer(World, d), DrawRecord(d))
    /\ UNCHANGED <<pushed, probe>>

\* a draw of either kind
DoDraw(w, d) ==
    IF d[1].src = "array" THEN DoDrawVertices(w, d) ELSE DoDrawVertexBuffer(w, d)

Activations == { [NoInput EXCEPT !.act = a, !.act2 = b] : a, b \in BOOLEAN }

Clear ==
    /\ view # NoView
    /\ \E in \in {NoInput, NotActivated}, depth \in BOOLEAN :
         Commit(clear(World, depth, in), last)
    /\ UNCHANGED <<pushed, probe>>

ResetGLStates ==
    /\ view # NoView
    /\ \E in \in {NoInput, NotActivated} :
         Commit(resetGLStates(World, in.act, in.lighting),
                IF in.act THEN Carried(OpRecord("resetGLStates")) ELSE last)
    /\ UNCHANGED <<pushed, probe>>

\* the model keeps one level of the device stacks
PushGLStates ==
    /\ view # NoView
    /\ glStack = <<>>
    /\ \E in \in Activations :
         /\ Commit(pushGLStates(World, in),
                   IF in.act \/ in.act2 THEN Carried(OpRecord("pushGLStates")) ELSE last)
         /\ pushed' = IF in.act THEN [view |-> view, gl |-> gl] ELSE pushed
    /\ UNCHANGED probe

PopGLStates ==
    /\ view # NoView
    /\ glStack # <<>>
    /\ \E in \in Activations :
         /\ Commit(popGLStates(World, in),
                   IF in.act THEN Carried(OpRecord("popGLStates")) ELSE last)
         /\ pushed' = IF in.act THEN NotPushed ELSE pushed
    /\ UNCHANGED probe

\* Texture::~Texture: the texture at TexAddr dies; the device forgets it
DestroyTexture ==
    /\ texture # 0
    /\ texture' = 0
    /\ gl' = IF gl.texture = texture THEN [gl EXCEPT !.texture = 0] ELSE gl
    /\ UNCHANGED <<env, cache, view, depthTest, defaultShader,
                   currentNonLegacyShader, lastNonLegacyShader, nextTexId,
                   glStack, uniforms, last, pushed, probe>>

\* Texture::Texture + create: a texture is born at TexAddr with a fresh id
CreateTexture ==
    /\ texture = 0
    /\ nextTexId <= MaxTexId
    /\ texture' = nextTexId
    /\ nextTexId' = nextTexId + 1
    /\ UNCHANGED <<env, cache, view, depthTest, defaultShader,
                   currentNonLegacyShader, lastNonLegacyShader, gl, glStack,
                   uniforms, last, pushed, probe>>

\* draws that differ in their source, texture and blend mode only
TexturedDraws ==
    { <<sub, [DefaultStates EXCEPT !.texture = t, !.blendMode = b], NoInput>> :
        sub \in {SmallArray, FullBuffer}, t \in LiveTextures, b \in BlendModes }

DrawTextured ==
    /\ view # NoView
    /\ \E d \in TexturedDraws : Commit(DoDraw(World, d), DrawRecord(d))
    /\ UNCHANGED <<pushed, probe>>

\* draws of an array that differ in their blend mode only
PlainDraws ==
    { <<SmallArray, [DefaultStates EXCEPT !.blendMode = b], NoInput>> :
        b \in BlendModes }

DrawPlain ==
    /\ view # NoView
    /\ \E d \in PlainDraws : Commit(DoDraw(World, d), DrawRecord(d))
    /\ UNCHANGED <<pushed, probe>>

\* RenderTarget::enableDepthTest, called by the user of the target
EnableDepthTest ==
    /\ view # NoView
    /\ \E enable \in BOOLEAN :
         /\ depthTest' = enableDepthTest(World, enable).depthTest
         /\ gl' = enableDepthTest(World, enable).gl
    /\ UNCHANGED <<env, cache, view, defaultShader, currentNonLegacyShader,
                   lastNonLegacyShader, texture, nextTexId, glStack, uniforms,
                   last, pushed, probe>>

\* where the allocator can place the default shader
DefaultShaderAddrs == {DefaultShaderAddr, MovedShaderAddr}

\* line 817: the shader setupNonLegacyPipeline creates, at the address addr
Placed(sh, addr) == IF sh = NullShader THEN NullShader ELSE addr

\* lines 799 and 817: the programs of the deleted and of the new default
\* shader hold no uniform values
Replaced(u, old, new) ==
    [sh \in ShaderAddrs |-> IF sh \in {old, new} THEN FreshUniforms ELSE u[sh]]

\* the shader instances created since the last executed draw
Created(l, sh) == [l EXCEPT !.fresh = @ \cup ({sh} \ {NullShader})]

\* RenderTarget::initialize on a target that was initialized before (a window
\* that is created again): the views are replaced, the default shader is
\* deleted and created anew
ReInitialize ==
    /\ view # NoView
    /\ \E drv \in Drivers(env), addr \in DefaultShaderAddrs :
         /\ defaultShader' = Placed(setupNonLegacyPipeline(drv), addr)
         /\ uniforms' = Replaced(uniforms, defaultShader,
                                 Placed(setupNonLegacyPipeline(drv), addr))
         /\ last' = Created(Carried(OpRecord("initialize")),
                            Placed(setupNonLegacyPipeline(drv), addr))
    /\ view' = DefaultView
    /\ cache' = [cache EXCEPT !.glStatesSet = FALSE]
    /\ UNCHANGED <<env, depthTest, currentNonLegacyShader, lastNonLegacyShader,
                   texture, nextTexId, gl, glStack, pushed, probe>>

\* Shader::~Shader and Shader::Shader of the caller: the shader at
\* UserShaderAddr dies and another one is created at the same address
RecreateShader ==
    /\ view # NoView
    /\ UserShaderAddr \notin last.fresh
    /\ uniforms' = Replaced(uniforms, UserShaderAddr, UserShaderAddr)
    /\ last' = Created(last, UserShaderAddr)
    /\ UNCHANGED <<env, cache, view, depthTest, defaultShader,
                   currentNonLegacyShader, lastNonLegacyShader, texture,
                   nextTexId, gl, glStack, pushed, probe>>

\* draws of an array that differ in their texture and shader, on a target
\* whose activation succeeds
ShadedDraws ==
    { <<SmallArray, [DefaultStates EXCEPT !.texture = t, !.shader = sh], in>> :
        t \in LiveTextures, sh \in {NullShader, UserShaderAddr}, in \in Activated }

DrawShaded ==
    /\ view # NoView
    /\ \E d \in ShadedDraws : Commit(DoDraw(World, d), DrawRecord(d))
    /\ UNCHANGED <<pushed, probe>>

\* the sizes of the surfaces, getSize()
Sizes == { <<800, 600>>, <<5, 3>> }

InitViews == InitTarget /\ \E size \in Sizes : probe = Unprobed(size)

\* everything but probe: the queries are const members
targetVars == <<env, cache, view, depthTest, defaultShader, currentNonLegacyShader,
                lastNonLegacyShader, texture, nextTexId, gl, glStack, uniforms,
                last, pushed>>

\* ratios of the surface, and the <<origin, extent>> pairs a viewport can have
\* along one axis
Fractions == { Q(k, Den) : k \in 0 .. Den }
Spans == { a \in Fractions \X Fractions : ~QLess(QInt(1), QAdd(a[1], a[2])) }

\* the views handed to getViewport: every span along x, every span along y
ViewportInputs(size) ==
         { ViewGeometry(Rect(a[1], a[2], a[2], a[1]),
                        DefaultGeometry(size).center, DefaultGeometry(size).size) :
             a \in Spans }
    \cup { ViewOf(v, size) : v \in Views }

\* coordinates and pixels near the two edges of an axis of n pixels
CoordsNear(n) ==
    { Q(k, 2) : k \in 0 .. MaxHalf } \cup { Q(2 * n - k, 2) : k \in 1 .. MaxHalf }
PixelsNear(n) == { k \in 0 .. (n - 1) : k <= MaxHalf \/ k >= n - 1 - MaxHalf }

PointInputs(size) == CoordsNear(size[1]) \X CoordsNear(size[2])
PixelInputs(size) == PixelsNear(size[1]) \X PixelsNear(size[2])

\* the view argument of a mapping: NoView stands for the overload without one
ViewArguments == {NoView} \cup Views

ViewArgument(arg, size) ==
    IF arg = NoView THEN CurrentGeometry(view, size) ELSE ViewOf(arg, size)

Probed(op, arg, vw, in, out) ==
    [probe EXCEPT !.op = op, !.arg = arg, !.vw = vw, !.in = in, !.out = out]

GetViewport ==
    /\ \E vw \in ViewportInputs(probe.size) :
         probe' = Probed("getViewport", DefaultView, vw, <<0, 0>>,
                         getViewport(probe.size, vw))
    /\ UNCHANGED targetVars

MapPixelToCoords ==
    /\ view # NoView
    /\ \E arg \in ViewArguments, point \in PixelInputs(probe.size) :
         probe' = Probed("mapPixelToCoords", arg, ViewArgument(arg, probe.size), point,
                         mapPixelToCoords(probe.size, point,
                                          ViewArgument(arg, probe.size)))
    /\ UNCHANGED targetVars

MapCoordsToPixel ==
    /\ view # NoView
    /\ \E arg \in ViewArguments, point \in PointInputs(probe.size) :
         probe' = Probed("mapCoordsToPixel", arg, ViewArgument(arg, probe.size), point,
                         mapCoordsToPixel(probe.size, point,
                                          ViewArgument(arg, probe.size)))
    /\ UNCHANGED targetVars

(***************************************************************************)
(* Spec: a target whose caller sets views, clears, draws arrays and        *)
(* buffers and resets the states.                                          *)
(***************************************************************************)
Next ==
    \/ Initialize
    \/ SetView
    \/ Clear
    \/ DrawVertices
    \/ DrawVertexBuffer
    \/ ResetGLStates

Spec == Init /\ [][Next]_vars

(***************************************************************************)
(* SpecTextures: a caller that destroys its texture and creates new ones   *)
(* at the same address between draws.                                      *)
(***************************************************************************)
NextTextures ==
    \/ Initialize
    \/ DrawTextured
    \/ DestroyTexture
    \/ CreateTexture

SpecTextures == Init /\ [][NextTextures]_vars

(***************************************************************************)
(* SpecGLStates: a caller that brackets its own OpenGL code with           *)
(* pushGLStates / popGLStates.                                             *)
(***************************************************************************)
NextGLStates ==
    \/ Initialize
    \/ SetView
    \/ DrawPlain
    \/ PushGLStates
    \/ PopGLStates

SpecGLStates == Init /\ [][NextGLStates]_vars

(***************************************************************************)
(* SpecDepthTest: a caller that switches the depth test of the target      *)
(* between pushGLStates, popGLStates and resetGLStates.                    *)
(***************************************************************************)
NextDepthTest ==
    \/ Initialize
    \/ EnableDepthTest
    \/ PushGLStates
    \/ PopGLStates
    \/ ResetGLStates

SpecDepthTest == Init /\ [][NextDepthTest]_vars

(***************************************************************************)
(* SpecShaders: a caller that initializes the target again and replaces    *)
(* its shader by another one at the same address between draws.            *)
(***************************************************************************)
NextShaders ==
    \/ Initialize
    \/ ReInitialize
    \/ RecreateShader
    \/ DrawShaded

SpecShaders == Init /\ [][NextShaders]_vars

(***************************************************************************)
(* SpecViews: a caller that sets views and asks the target for viewports   *)
(* and for the mappings between pixels and world coordinates.              *)
(***************************************************************************)
NextViews ==
    \/ Initialize
    \/ SetView
    \/ GetViewport
    \/ MapPixelToCoords
    \/ MapCoordsToPixel

SpecViews == InitViews /\ [][NextViews]_vars

(***************************************************************************)
(* Properties.  An operation applied to the current state yields a working *)
(* state whose log lists the calls the operation made; the properties      *)
(* below look, in every reachable state, at what each operation would do   *)
(* there.                                                                  *)
(***************************************************************************)
AllDraws == ArrayDraws \cup BufferDraws

ExecutedDraws == { d \in AllDraws : Executes(d) }

EmptyDraws == { d \in AllDraws : ~d[1].ptr \/ d[1].count = 0 }

\* the positions in the log of r of the calls named f
CallsOf(r, f) == { i \in DOMAIN r.log : r.log[i].f = f }

\* did the operation enter the applier f ?
Applied(r, f) == \E i \in DOMAIN r.log : r.log[i].k = "applier" /\ r.log[i].f = f

\* the cache, the view and the shader-tracking pointers are as before
Untouched(r) ==
    /\ r.cache = cache
    /\ r.view = view
    /\ r.cur = currentNonLegacyShader
    /\ r.lastSh = lastNonLegacyShader

\* the operation made no call and changed neither the target nor the device
NoOp(r) == r.log = <<>> /\ Untouched(r) /\ r.gl = gl /\ r.uniforms = uniforms

\* C1: a raw-array draw with vertex count 0 or a null vertex pointer, and a
\* vertex-buffer draw whose buffer holds no vertex, makes no call at all (not
\* even activate) and leaves the cache, the view, the shader-tracking
\* pointers and the device as they are.
C1_EmptyDrawDoesNothing == \A d \in EmptyDraws : NoOp(DoDraw(World, d))

C1_Witness ==
    /\ cache.glStatesSet
    /\ cache.lastTextureId # 0
    /\ \E d \in EmptyDraws : d[1].src = "array" /\ d[1].ptr /\ NoOp(DoDraw(World, d))
    /\ \E d \in EmptyDraws : d[1].src = "buffer" /\ NoOp(DoDraw(World, d))

\* r, the outcome of the draw d, holds one draw call, the one d asks for
OneDrawCall(r, d) ==
    /\ Cardinality(CallsOf(r, "glDrawArrays")) = 1
    /\ \A i \in CallsOf(r, "glDrawArrays") :
          r.log[i].a = modes[d[1].type + 1] /\ r.log[i].b = d[1].count

\* C2: a draw of a non-empty submission on a target whose activation succeeds
\* makes exactly one glDrawArrays call, on either pipeline, with the GLenum
\* of the requested primitive type and the submitted vertex count.
C2_OneDrawCall ==
    view # NoView => \A d \in ExecutedDraws : OneDrawCall(DoDraw(World, d), d)

C2_Witness ==
    /\ last.op = "draw"
    /\ \E d \in ExecutedDraws :
          d[1].type = MaxPrimType /\ OneDrawCall(DoDraw(World, d), d)
    /\ \E d \in ExecutedDraws :
          d[1].src = "buffer" /\ OneDrawCall(DoDraw(World, d), d)

\* an operation that did nothing but ask for activation
Silent(r) ==
    /\ \A i \in DOMAIN r.log : r.log[i].k = "act"
    /\ Untouched(r)
    /\ r.gl = gl
    /\ r.glStack = glStack
    /\ r.uniforms = uniforms

\* C3: when activate fails during the whole operation, clear, draw(array),
\* draw(buffer), pushGLStates, popGLStates and resetGLStates make no device
\* call and leave the cache (glStatesSet included), the view and the
\* shader-tracking pointers as they are.
C3_NotActivatedIsSilent ==
    view # NoView =>
      /\ \A d \in { x \in AllDraws : ~x[3].act /\ ~x[3].act2 } : Silent(DoDraw(World, d))
      /\ \A depth \in BOOLEAN : Silent(clear(World, depth, NotActivated))
      /\ Silent(pushGLStates(World, NotActivated))
      /\ Silent(popGLStates(World, NotActivated))
      /\ Silent(resetGLStates(World, FALSE, FALSE))

C3_Witness ==
    /\ glStack # <<>>
    /\ last.op = "draw"
    /\ Silent(popGLStates(World, NotActivated))
    /\ \E d \in AllDraws : ~d[3].act /\ Silent(DoDraw(World, d))

\* the draw d has the blend mode, the texture and the buffer of the last draw
SameBlend(d)   == d[2].blendMode = last.blendMode
SameTexture(d) == d[2].texture = last.texture
SameBuffer(d)  == d[1].buf = last.buf
SameShader(d)  == EffectiveShader(defaultShader, d[2]) = last.eff

NoneOf(r, fs) == \A f \in fs : ~Applied(r, f)

\* what C4 asks of r, the outcome of the draw d that follows an executed draw
Suppressed(r, d) ==
    /\ (SameBlend(d) /\ SameTexture(d) /\ SameBuffer(d)) =>
          NoneOf(r, {"applyBlendMode", "applyTexture", "applyVertexBuffer"})
    /\ (SameBlend(d) /\ ~SameTexture(d) /\ SameBuffer(d)) =>
          Applied(r, "applyTexture") /\ NoneOf(r, {"applyBlendMode", "applyVertexBuffer"})

\* C4 as stated: of two consecutive executed draws with the same blend mode,
\* texture id and buffer id the second enters none of the blend-mode, texture
\* and vertex-buffer appliers; if only the texture id differs it enters the
\* texture applier and no other of the three.
C4_Original ==
    last.op = "draw" => \A d \in ExecutedDraws : Suppressed(DoDraw(World, d), d)

\* C4, amended: the same, for a second draw that finds the persistent states
\* set (glStatesSet) and has the effective shader of the first.
C4_CacheSuppression ==
    (last.op = "draw" /\ cache.glStatesSet) =>
        \A d \in { x \in ExecutedDraws : SameShader(x) } :
            Suppressed(DoDraw(World, d), d)

C4_Witness ==
    /\ last.op = "draw"
    /\ cache.glStatesSet
    /\ last.texture # 0
    /\ last.buf # 0
    /\ \E d \in ExecutedDraws :
          /\ SameShader(d) /\ SameBlend(d) /\ SameTexture(d) /\ SameBuffer(d)
          /\ NoneOf(DoDraw(World, d), {"applyBlendMode", "applyTexture", "applyVertexBuffer"})
    /\ \E d \in ExecutedDraws :
          /\ SameShader(d) /\ SameBlend(d) /\ ~SameTexture(d) /\ SameBuffer(d)
          /\ Applied(DoDraw(World, d), "applyTexture")

\* what C5 asks of r, the outcome of the draw d that follows an executed draw
Reapplied(r, d) ==
    /\ (last.texture # 0 /\ d[2].texture # 0 /\ ~SameTexture(d)) =>
          Applied(r, "applyTexture")
    /\ (d[1].src = "buffer" /\ ~SameBuffer(d)) => Applied(r, "applyVertexBuffer")

\* C5: after a draw with a texture, a draw with a texture of another cache id
\* enters the texture applier again, also when the first texture was
\* destroyed and the second created at its address; likewise a buffer draw
\* whose buffer id is not the one of the last draw enters the vertex-buffer
\* applier.
C5_IdentityNotAddress ==
    (last.op = "draw" /\ cache.glStatesSet) =>
        \A d \in { x \in TexturedDraws : Executes(x) } : Reapplied(DoDraw(World, d), d)

C5_Witness ==
    /\ last.op = "draw"
    /\ cache.glStatesSet
    /\ last.texture # 0
    /\ texture # 0
    /\ texture # last.texture
    /\ \E d \in TexturedDraws :
          d[2].texture = texture /\ Applied(DoDraw(World, d), "applyTexture")

\* the state C6 observes: device attributes, matrices, bound program, view
RestoredBy(r) == r.gl = pushed.gl /\ r.view = pushed.view

\* C6: whatever is drawn between a pushGLStates and its popGLStates, the
\* state observed just after the popGLStates (device attributes, matrices,
\* bound shader program, current view of the target) is the state just
\* before the pushGLStates.
C6_PushPopSymmetry ==
    glStack # <<>> => RestoredBy(popGLStates(World, NoInput))

\* which appliers C7 asks of r, the outcome of the draw d
AllReapplied(r, d) ==
    /\ Applied(r, "applyCurrentView")
    /\ Applied(r, "applyBlendMode")
    /\ Applied(r, "applyTexture")
    /\ Applied(r, "applyShader")
    /\ d[1].src = "buffer" => Applied(r, "applyVertexBuffer")

\* C7 as stated: the executed draw that follows a successful resetGLStates
\* enters the view, blend-mode, texture and shader appliers and, for a buffer
\* draw, the vertex-buffer applier, whatever it submits.
C7_Original ==
    last.op = "resetGLStates" =>
        \A d \in ExecutedDraws : AllReapplied(DoDraw(World, d), d)

\* which appliers the draw d enters after a resetGLStates
ReappliedAfterReset(r, d) ==
    /\ Applied(r, "applyCurrentView")
    /\ Applied(r, "applyBlendMode") <=> d[2].blendMode # BlendAlpha
    /\ Applied(r, "applyTexture") <=>
          \/ d[2].texture # 0
          \/ /\ defaultShader # NullShader
             /\ EffectiveShader(defaultShader, d[2]) # lastNonLegacyShader
    /\ Applied(r, "applyShader") <=>
          (d[2].shader # NullShader \/ defaultShader # NullShader)
    /\ (d[1].src = "buffer" /\ env.vbo) => Applied(r, "applyVertexBuffer")
    /\ (d[1].src = "buffer" /\ ~env.vbo) =>
          (Applied(r, "applyVertexBuffer") <=> d[1].buf # cache.lastVertexBufferId)

\* C7, amended: the executed draw that follows a successful resetGLStates
\* always enters the view applier; it enters the blend-mode applier iff its
\* blend mode is not BlendAlpha, the texture applier iff it has a texture or
\* its effective shader is not the one of the draw before, the shader
\* applier iff it has an override shader or the shader pipeline is in use,
\* and a buffer draw enters the vertex-buffer applier where vertex buffers
\* are available (elsewhere iff its buffer is not the cached one).
C7_AfterReset ==
    last.op = "resetGLStates" =>
        \A d \in ExecutedDraws : ReappliedAfterReset(DoDraw(World, d), d)

C7_Witness ==
    /\ last.op = "resetGLStates"
    /\ cache.lastTextureId = 0
    /\ lastNonLegacyShader # NullShader
    /\ \E d \in ExecutedDraws :
          /\ d[2].blendMode = BlendAlpha /\ d[2].texture = 0
          /\ d[2].shader = NullShader
          /\ Applied(DoDraw(World, d), "applyCurrentView")
          /\ NoneOf(DoDraw(World, d), {"applyBlendMode", "applyTexture"})

\* the target and the device in r are those in q
SameOutcome(r, q) ==
    /\ r.cache = q.cache
    /\ r.view = q.view
    /\ r.cur = q.cur
    /\ r.lastSh = q.lastSh
    /\ r.gl = q.gl
    /\ r.uniforms = q.uniforms

ResetAgain(r) == resetGLStates(r, TRUE, FALSE)

\* C8: with activation succeeding, resetGLStates called twice in a row leaves
\* the cache, the view, the shader-tracking pointers and the device as one
\* call leaves them.
C8_ResetIdempotent ==
    view # NoView =>
        SameOutcome(ResetAgain(ResetAgain(World)), ResetAgain(World))

\* the calls of the fixed-function pipeline that carry transform, view or
\* texture, and those of the shader pipeline
FixedFunctionCall(e) == e.f \in {"glLoadMatrixf", "Texture::bind"}
ShaderParameter(e)   == e.k = "param"

\* r keeps to the pipeline in use
Exclusive(r) ==
    \A i \in DOMAIN r.log :
        IF defaultShader # NullShader THEN ~FixedFunctionCall(r.log[i])
                                      ELSE ~ShaderParameter(r.log[i])

\* r sends transform and texture through the pipeline in use
SentThrough(r) ==
    IF defaultShader # NullShader
    THEN CallsOf(r, "sf_ModelMatrix") # {} /\ CallsOf(r, "sf_TextureEnabled") # {}
    ELSE CallsOf(r, "glLoadMatrixf") # {} /\ CallsOf(r, "Texture::bind") # {}

\* C9: in every draw and in resetGLStates, under the shader pipeline
\* transform, view and texture go to the device through shader parameters
\* and no fixed-function matrix load or texture bind is made; under the
\* legacy pipeline they go through matrix loads and texture binds and no
\* shader parameter is set.
C9_PipelineExclusive ==
    view # NoView =>
      /\ \A d \in ExecutedDraws : Exclusive(DoDraw(World, d))
      /\ \A lighting \in BOOLEAN :
            /\ Exclusive(resetGLStates(World, TRUE, lighting))
            /\ SentThrough(resetGLStates(World, TRUE, lighting))

C9_Witness ==
    /\ defaultShader # NullShader
    /\ last.op = "draw"
    /\ \E d \in ExecutedDraws :
          /\ d[2].texture # cache.lastTextureId
          /\ CallsOf(DoDraw(World, d), "sf_TextureEnabled") # {}
          /\ Exclusive(DoDraw(World, d))

\* the conditions C10 names, and the one it leaves out
Selected(drv) == drv.lighting /\ drv.version > GlslThreshold /\ drv.compiles

\* every operation after initialize that the target offers
Operations ==
         { DoDraw(World, d) : d \in AllDraws }
    \cup { clear(World, depth, in) : depth \in BOOLEAN, in \in Activations }
    \cup { pushGLStates(World, in) : in \in Activations }
    \cup { popGLStates(World, in) : in \in Activations }
    \cup { resetGLStates(World, in.act, in.lighting) : in \in Activations }
    \cup { setView(World, v) : v \in Views }

\* no operation changes the pipeline in use
PipelineKept == view # NoView => \A r \in Operations : r.ds = defaultShader

\* C10 as stated: initialize selects the shader pipeline iff shader lighting
\* is available, the supported version exceeds 1.29 and the default programs
\* compile; no later operation changes the pipeline.
C10_Original ==
    /\ view = NoView =>
          \A drv \in Drivers(env) :
              setupNonLegacyPipeline(drv) # NullShader <=> Selected(drv)
    /\ PipelineKept

\* C10, amended: the same, in a build that does not define SFML_LEGACY_GL; a
\* build that defines it stays on the legacy pipeline.
C10_PipelineSelection ==
    /\ view = NoView =>
          \A drv \in Drivers(env) :
              setupNonLegacyPipeline(drv) # NullShader <=>
                  (Selected(drv) /\ ~drv.legacyGL)
    /\ PipelineKept

C10_Witness ==
    /\ view # NoView
    /\ defaultShader # NullShader
    /\ last.op = "draw"
    /\ PipelineKept

\* k = trunc(1/2 + n * f) for a ratio f >= 0: the integer nearest to n * f
RoundedTo(k, n, f) ==
    /\ 2 * k * f[2] <= 2 * n * f[1] + f[2]
    /\ 2 * n * f[1] + f[2] < 2 * (k + 1) * f[2]

\* k = trunc(n * f) for a ratio f >= 0
TruncatedTo(k, n, f) == k * f[2] <= n * f[1] /\ n * f[1] < (k + 1) * f[2]

UnitRect == Rect(QInt(0), QInt(0), QInt(1), QInt(1))

\* the rectangle r is the viewport vp on a surface of the given size
ViewportOf(r, size, vp) ==
    /\ RoundedTo(r.left, size[1], vp.left)
    /\ RoundedTo(r.top, size[2], vp.top)
    /\ TruncatedTo(r.width, size[1], vp.width)
    /\ TruncatedTo(r.height, size[2], vp.height)
    /\ (size = <<800, 600>> /\ vp = UnitRect) => r = Rect(0, 0, 800, 600)

\* C11: getViewport(view) on a surface of W x H returns the rectangle whose
\* origin is the viewport's origin rounded to the nearest pixel
\* (trunc(0.5 + W * left), trunc(0.5 + H * top)) and whose extent is
\* truncated (trunc(W * width), trunc(H * height)); the viewport (0, 0, 1, 1)
\* on 800 x 600 gives (0, 0, 800, 600).
C11_ViewportFormula ==
    probe.op = "getViewport" => ViewportOf(probe.out, probe.size, probe.vw.viewport)

C11_Witness ==
    /\ probe.op = "getViewport"
    /\ probe.size = <<800, 600>>
    /\ probe.vw.viewport = UnitRect
    /\ probe.out = Rect(0, 0, 800, 600)

\* the last query was a mapping through the default view
OnDefaultView(op) ==
    probe.op = op /\ probe.vw = DefaultGeometry(probe.size)

Truncated(p) == <<QInt(Trunc(p[1])), QInt(Trunc(p[2]))>>

\* C12 as stated: for the default view, mapPixelToCoords(mapCoordsToPixel(p))
\* is p for every point p inside the viewport, the arithmetic being exact.
C12_Original ==
    OnDefaultView("mapCoordsToPixel") =>
        mapPixelToCoords(probe.size, probe.out, probe.vw) = probe.in

\* C12, amended: for the default view and exact arithmetic,
\* mapCoordsToPixel(mapPixelToCoords(q)) is q for every pixel q of the
\* viewport, and mapPixelToCoords(mapCoordsToPixel(p)) is p with both
\* coordinates truncated to integers, for every point p inside the viewport.
C12_RoundTrip ==
    /\ OnDefaultView("mapPixelToCoords") =>
          mapCoordsToPixel(probe.size, probe.out, probe.vw) = probe.in
    /\ OnDefaultView("mapCoordsToPixel") =>
          mapPixelToCoords(probe.size, probe.out, probe.vw) = Truncated(probe.in)

C12_Witness ==
    /\ OnDefaultView("mapCoordsToPixel")
    /\ probe.size = <<800, 600>>
    /\ probe.in = <<Q(1, 2), Q(1199, 2)>>
    /\ probe.out = <<0, 599>>
    /\ mapPixelToCoords(probe.size, probe.out, probe.vw) = <<QInt(0), QInt(599)>>

\* the answer of the overload that takes the default view as its view
WithDefaultView(op, size, in) ==
    IF op = "mapPixelToCoords" THEN mapPixelToCoords(size, in, DefaultGeometry(size))
                               ELSE mapCoordsToPixel(size, in, DefaultGeometry(size))

\* C13: mapPixelToCoords and mapCoordsToPixel called without a view answer as
\* the overloads with a view do for getDefaultView(), also after a setView.
C13_DefaultViewUsed ==
    (probe.op \in {"mapPixelToCoords", "mapCoordsToPixel"} /\ probe.arg = NoView) =>
        probe.out = WithDefaultView(probe.op, probe.size, probe.in)

\* the activations r asked for: one by the operation itself, one more by a
\* resetGLStates it runs
Activations_In(r) == { i \in DOMAIN r.log : r.log[i].k = "act" }

\* r ran resetGLStates first: its activation follows the draw's own at once,
\* ahead of every applier and of the draw call
ResetFirst(r) ==
    /\ Activations_In(r) = {1, 2}
    /\ \A i \in DOMAIN r.log :
          (r.log[i].k = "applier" \/ r.log[i].f = "glDrawArrays") => i > 2

NoReset(r) == Activations_In(r) = {1} /\ r.cache.glStatesSet

FirstDraw(r, d) == ResetFirst(r) /\ (r.cache.glStatesSet <=> d[3].act2)

ShaderDiffers(d) ==
    defaultShader # NullShader /\ EffectiveShader(defaultShader, d[2]) # lastNonLegacyShader

\* viewChanged, as the draw d will read it: the resetGLStates of a first
\* draw sets it through setView
ViewChangedFor(d) == cache.viewChanged \/ (~cache.glStatesSet /\ d[3].act2)

ViewRule(r, d) ==
    /\ Applied(r, "applyCurrentView") <=> (ShaderDiffers(d) \/ ViewChangedFor(d))
    /\ ~r.cache.viewChanged

\* C15: an executed draw enters the view applier iff its effective shader is
\* not the one of the previous draw or viewChanged is set when the draw
\* tests it; the applier clears viewChanged, so no executed draw leaves it
\* set and the draws after the one that follows a setView apply the view
\* again only after a shader change or another setView.
C15_ViewApplier ==
    view # NoView => \A d \in ExecutedDraws : ViewRule(DoDraw(World, d), d)

C15_Witness ==
    /\ last.op = "draw"
    /\ cache.glStatesSet
    /\ cache.viewChanged
    /\ view # DefaultView
    /\ \E d \in ExecutedDraws :
          ~ShaderDiffers(d) /\ Applied(DoDraw(World, d), "applyCurrentView")

\* does the draw d begin with a resetGLStates that can activate ?
ResetRuns(d) == ~cache.glStatesSet /\ d[3].act2

\* how often the operation entered the applier f
Entries(r, f) ==
    Cardinality({ i \in DOMAIN r.log : r.log[i].k = "applier" /\ r.log[i].f = f })

\* the draw d itself entered the applier f, which resetGLStates enters once
AppliedByDraw(r, d, f) == Entries(r, f) > (IF ResetRuns(d) THEN 1 ELSE 0)

\* cache.lastTextureId, as the draw d will read it
LastTextureFor(d) == IF ResetRuns(d) THEN 0 ELSE cache.lastTextureId

TextureRule(r, d) ==
    /\ AppliedByDraw(r, d, "applyTexture") <=>
          (ShaderDiffers(d) \/ d[2].texture # LastTextureFor(d))
    /\ r.cache.lastTextureId = d[2].texture

\* C16: an executed draw enters the texture applier iff its effective shader
\* is not the one of the previous draw or the identity of its texture (0 for
\* none) differs from cache.lastTextureId; after the draw cache.lastTextureId
\* is the identity of the submitted texture, 0 if none.
C16_TextureApplier ==
    view # NoView => \A d \in ExecutedDraws : TextureRule(DoDraw(World, d), d)

C16_Witness ==
    /\ last.op = "draw"
    /\ cache.glStatesSet
    /\ cache.lastTextureId # 0
    /\ \E d \in ExecutedDraws :
          /\ ~ShaderDiffers(d)
          /\ d[2].texture = 0
          /\ AppliedByDraw(DoDraw(World, d), d, "applyTexture")
          /\ DoDraw(World, d).cache.lastTextureId = 0

SetMax(S) == CHOOSE x \in S : \A y \in S : y <= x

\* the calls of Shader::bind the operation made before its call number i
BindsBefore(r, i) == { j \in 1 .. (i - 1) : r.log[j].f = "Shader::bind" }

\* the program bound when the operation makes its call number i
ProgramAt(r, i) ==
    IF BindsBefore(r, i) = {} THEN gl.program
    ELSE r.log[SetMax(BindsBefore(r, i))].a

\* the binding the draw d resolves: its override, else the default shader,
\* which is none on the legacy pipeline
ResolvedBinding(d) == IF d[2].shader # NullShader THEN d[2].shader ELSE defaultShader

ShaderRule(r, d) ==
    /\ \A i \in CallsOf(r, "glDrawArrays") : ProgramAt(r, i) = ResolvedBinding(d)
    /\ ResolvedBinding(d) # NullShader =>
          \E i \in DOMAIN r.log :
              r.log[i] = Entry("applier", "applyShader", ResolvedBinding(d), 0)
    /\ defaultShader = NullShader => r.gl.program = NullShader

\* C17: at the draw call of every executed draw the bound program is the
\* override shader of the draw if it has one, else the default shader on the
\* shader pipeline, else none; the draw enters the shader applier with that
\* binding whenever there is one, and on the legacy pipeline no program is
\* bound once a draw is over, nor between the operations of the target.
C17_ShaderBinding ==
    view # NoView =>
      /\ \A d \in ExecutedDraws : ShaderRule(DoDraw(World, d), d)
      /\ defaultShader = NullShader => gl.program = NullShader

C17_Witness ==
    /\ defaultShader = NullShader
    /\ last.op = "draw"
    /\ \E d \in ExecutedDraws :
          /\ d[2].shader = UserShaderAddr
          /\ \A i \in CallsOf(DoDraw(World, d), "glDrawArrays") :
                ProgramAt(DoDraw(World, d), i) = UserShaderAddr
          /\ DoDraw(World, d).gl.program = NullShader

\* the calls of VertexBuffer::bind the operation made before its call number i
BufferBindsBefore(r, i) == { j \in 1 .. (i - 1) : r.log[j].f = "VertexBuffer::bind" }

\* the vertex buffer bound when the operation makes its call number i
BufferAt(r, i) ==
    IF BufferBindsBefore(r, i) = {} THEN gl.arrayBuffer
    ELSE r.log[SetMax(BufferBindsBefore(r, i))].a

\* does the resetGLStates that begins the draw d enter the vertex-buffer applier ?
ResetUnbinds(d) == ResetRuns(d) /\ env.vbo

\* cache.lastVertexBufferId, as the draw d will read it
LastBufferFor(d) == IF ResetUnbinds(d) THEN 0 ELSE cache.lastVertexBufferId

\* the draw d itself entered the vertex-buffer applier
BufferAppliedByDraw(r, d) ==
    Entries(r, "applyVertexBuffer") > (IF ResetUnbinds(d) THEN 1 ELSE 0)

\* d[1].buf is the identity of the submitted buffer, 0 for a raw array
BufferRule(r, d) ==
    /\ BufferAppliedByDraw(r, d) <=> d[1].buf # LastBufferFor(d)
    /\ \A i \in CallsOf(r, "glDrawArrays") : BufferAt(r, i) = d[1].buf
    /\ r.gl.arrayBuffer = d[1].buf
    /\ r.cache.lastVertexBufferId = d[1].buf

\* C18: an executed buffer draw enters the vertex-buffer applier iff the
\* identity of its buffer differs from cache.lastVertexBufferId, an executed
\* array draw unbinds iff cache.lastVertexBufferId is not 0; at each draw
\* call the bound vertex buffer is the submitted buffer, none for an array
\* draw, and between the operations cache.lastVertexBufferId is the identity
\* of the bound buffer.
C18_VertexBufferBinding ==
    view # NoView =>
      /\ \A d \in ExecutedDraws : BufferRule(DoDraw(World, d), d)
      /\ cache.lastVertexBufferId = gl.arrayBuffer

C18_Witness ==
    /\ last.op = "draw"
    /\ last.buf # 0
    /\ gl.arrayBuffer = last.buf
    /\ \E d \in ExecutedDraws :
          /\ d[1].src = "array"
          /\ BufferAppliedByDraw(DoDraw(World, d), d)
          /\ \A i \in CallsOf(DoDraw(World, d), "glDrawArrays") :
                BufferAt(DoDraw(World, d), i) = 0

\* the operation copied vertices into the vertex cache (lines 354-361)
PreTransformed(r) ==
    \E i \in 1 .. Len(r.log) : r.log[i].k = "mem" /\ r.log[i].f = "vertexCache"

\* the device after a draw that took the pre-transform path: nothing after
\* the draw call changes the model-view matrix or the vertex pointers
PreTransformRule(r) ==
    PreTransformed(r) =>
      /\ r.gl.modelView = ViewTimes(r.view, 0)
      /\ r.gl.pointerBase = BaseCache

\* C19: every array draw that takes the pre-transform path is drawn with the
\* model-view matrix view-transform x identity and with the vertex pointers
\* on the vertex cache, whatever array and buffer draws came before.
C19_PreTransformDevice ==
    view # NoView =>
      \A d \in ExecutedDraws :
         d[1].src = "array" => PreTransformRule(DoDraw(World, d))

\* the copies into the vertex cache the operation made: each entry records
\* in a the number of slots written, starting at slot 0
CacheFills(r) ==
    { i \in 1 .. Len(r.log) : r.log[i].k = "mem" /\ r.log[i].f = "vertexCache" }

\* the legacy pipeline is in use, the array fits and the submission asks
MayPreTransform(r, d) ==
    r.ds = NullShader /\ d[1].count <= VertexCacheSize /\ d[2].useVertexCache

PreTransformPath(r, d) ==
    /\ (CacheFills(r) # {}) <=> MayPreTransform(r, d)
    /\ \A i \in CacheFills(r) :
          r.log[i].a = d[1].count /\ r.log[i].a <= VertexCacheSize
    /\ Cardinality(CacheFills(r)) <= 1
    /\ r.cache.useVertexCache = (CacheFills(r) # {})

\* C20: an executed array draw pre-transforms its vertices iff the legacy
\* pipeline is in use, vertexCount is at most the capacity of the vertex
\* cache and the submission's useVertexCache flag is set; it then writes the
\* slots 0 .. vertexCount-1 of the vertex cache and no other, and after the
\* draw cache.useVertexCache tells whether the draw pre-transformed.
C20_PreTransformPath ==
    view # NoView =>
      \A d \in ExecutedDraws :
         d[1].src = "array" => PreTransformPath(DoDraw(World, d), d)

C20_Witness ==
    /\ last.op = "draw"
    /\ cache.useVertexCache
    /\ \E d \in ExecutedDraws :
          /\ d[1].src = "array"
          /\ d[1].count > VertexCacheSize
          /\ d[2].useVertexCache
          /\ CacheFills(DoDraw(World, d)) = {}
          /\ ~DoDraw(World, d).cache.useVertexCache

\* the lighting parameters a draw can push
LightParams == {"sf_LightCount", "Light::addToShader", "sf_ViewerPosition"}

LightCalls(r) == { i \in DOMAIN r.log : r.log[i].f \in LightParams }

\* the values the operation passed in its calls named f
ValuesOf(r, f) == { r.log[i].b : i \in CallsOf(r, f) }

\* what a draw of the shader pipeline pushes: in are the draw's inputs,
\* eff its effective shader
LightsPushed(r, in, eff) ==
    /\ Cardinality(CallsOf(r, "sf_LightCount")) = 1
    /\ ValuesOf(r, "sf_LightCount") = {IF in.lighting THEN in.nLights ELSE 0}
    /\ ValuesOf(r, "Light::addToShader") =
          (IF in.lighting THEN 1 .. in.nLights ELSE {})
    /\ Cardinality(CallsOf(r, "Light::addToShader")) =
          (IF in.lighting THEN in.nLights ELSE 0)
    /\ ValuesOf(r, "sf_ViewerPosition") = (IF in.lighting THEN {r.view} ELSE {})
    /\ \A i \in LightCalls(r) :
          /\ r.log[i].a = eff
          /\ \A j \in CallsOf(r, "glDrawArrays") : i < j
    /\ CallsOf(r, "glDrawArrays") # {}

LightingRule(r, d) ==
    IF defaultShader = NullShader THEN LightCalls(r) = {}
    ELSE LightsPushed(r, d[3], EffectiveShader(defaultShader, d[2]))

\* C21: under the shader pipeline every executed draw sets, on its effective
\* shader and before its draw call, sf_LightCount to the number of enabled
\* lights, the attributes of every enabled light and sf_ViewerPosition when
\* lighting is enabled, and sf_LightCount to 0 and nothing else when it is
\* disabled; under the legacy pipeline no draw sets a lighting parameter.
C21_LightingParameters ==
    view # NoView =>
      \A d \in ExecutedDraws : LightingRule(DoDraw(World, d), d)

C21_Witness ==
    /\ defaultShader # NullShader
    /\ last.op = "draw"
    /\ \E d \in ExecutedDraws :
          /\ d[3].lighting
          /\ d[3].nLights >= 1
          /\ d[2].shader # NullShader
          /\ ValuesOf(DoDraw(World, d), "Light::addToShader") = 1 .. d[3].nLights

\* shaderChanged as the executed draw d computes it (line 346 / 196)
ShaderChangedIn(d) ==
    ShaderChanged(
      ResolveShader(FirstDrawReset(Activate(World, TRUE), d[3].act2, d[3].lighting),
                    d[2].shader))

\* the shader instance eff is not the effective shader of the previous
\* executed draw: there was none, it lives elsewhere, or it was created
\* since (last.fresh)
OtherInstance(eff) == eff # last.prev \/ eff \in last.fresh

TrackingRule(r, d, eff) ==
    /\ r.lastSh = eff
    /\ r.cur = NullShader
    /\ ShaderChangedIn(d) <=> OtherInstance(eff)

\* C22: under the shader pipeline every executed draw leaves
\* m_lastNonLegacyShader on its effective shader and m_currentNonLegacyShader
\* null, so that between the operations m_currentNonLegacyShader is null, and
\* its shaderChanged is true iff its effective shader is not the one of the
\* previous executed draw (true when there was none).
C22_ShaderTracking ==
    /\ currentNonLegacyShader = NullShader
    /\ (view # NoView /\ defaultShader # NullShader) =>
         \A d \in ExecutedDraws :
            TrackingRule(DoDraw(World, d), d, EffectiveShader(defaultShader, d[2]))

\* the operation set the parameter named f of the shader sh
ParamSet(r, f, sh) ==
    \E i \in DOMAIN r.log : r.log[i].k = "param" /\ r.log[i].f = f /\ r.log[i].a = sh

\* the view and the texture uniforms of the shader sh were applied
UniformsSet(r, sh) ==
    /\ ParamSet(r, "sf_ProjectionMatrix", sh)
    /\ ParamSet(r, "sf_TextureEnabled", sh)

\* C30: under the shader pipeline an executed draw whose effective shader is
\* another instance than the one of the previous executed draw sets the view
\* and the texture uniforms of that shader, also when the new instance lives
\* where the previous one did and when initialize created the default shader
\* anew.
C30_UniformsReapplied ==
    (view # NoView /\ defaultShader # NullShader) =>
      \A d \in ExecutedDraws :
         OtherInstance(EffectiveShader(defaultShader, d[2])) =>
            UniformsSet(DoDraw(World, d), EffectiveShader(defaultShader, d[2]))

\* the calls of Shader::warnMissing the operation made: the shader is in a,
\* the setting passed (1 to warn, 0 not to) in b
WarnCalls(r) == CallsOf(r, "warnMissing")

\* the shader's setting after the operation, when it was warn before
WarnAfter(r, warn) ==
    IF WarnCalls(r) = {} THEN warn ELSE r.log[SetMax(WarnCalls(r))].b = 1

\* a draw with an override on the shader pipeline: the warning is off from
\* before the first applier until after the draw call, then as it was
WarnSuppressed(r, sh) ==
    /\ Cardinality(WarnCalls(r)) = 2
    /\ \A i \in WarnCalls(r) : r.log[i].a = sh
    /\ \E i \in WarnCalls(r) :
          /\ r.log[i].b = 0
          /\ \A j \in CallsOf(r, "glDrawArrays") : i < j
          /\ \A j \in DOMAIN r.log : (r.log[j].k = "param" /\ r.log[j].a = sh) => i < j
    /\ \A j \in CallsOf(r, "glDrawArrays") : j < SetMax(WarnCalls(r))

WarnRule(r, d) ==
    /\ WarnAfter(r, d[3].warn) = d[3].warn
    /\ IF Executes(d) /\ defaultShader # NullShader /\ d[2].shader # NullShader
       THEN WarnSuppressed(r, d[2].shader)
       ELSE WarnCalls(r) = {}

\* C23: every draw leaves the "warn on missing parameter" setting of the
\* caller's shader as it was; an executed draw with an override on the shader
\* pipeline switches it off before it sets a parameter and restores the
\* previous setting after the draw call, every other draw does not touch it.
C23_WarnSettingKept ==
    view # NoView => \A d \in AllDraws : WarnRule(DoDraw(World, d), d)

C23_Witness ==
    /\ defaultShader # NullShader
    /\ last.op = "draw"
    /\ last.eff = UserShaderAddr
    /\ \E d \in ExecutedDraws :
          /\ d[2].shader # NullShader
          /\ ~d[3].warn
          /\ WarnSuppressed(DoDraw(World, d), d[2].shader)

\* enum BlendMode
AllBlendModes == {BlendAlpha, BlendAdd, BlendMultiply, BlendNone}

\* the blend function the applier left on the device and the mode it recorded
BlendResult(r, sep, mode) ==
    /\ r.gl.blendFunc = [sep |-> sep, mode |-> mode]
    /\ r.cache.lastBlendMode = mode

\* C24 as stated: the separate function for each of the four modes
C24_Original ==
    \A mode \in AllBlendModes :
       BlendResult(applyBlendMode(World, mode), env.blendSeparate, mode)

\* the modes whose case tests GLEW_EXT_blend_func_separate
SeparableModes == {BlendAlpha, BlendAdd}

\* C24: the blend-mode applier uses the separate-alpha blend function for
\* BlendAlpha and BlendAdd when the device supports it and the combined one
\* otherwise, the combined one for BlendMultiply and BlendNone on every
\* device, and it always records the mode in cache.lastBlendMode.
C24_BlendFunctions ==
    \A mode \in AllBlendModes :
       BlendResult(applyBlendMode(World, mode),
                   env.blendSeparate /\ mode \in SeparableModes, mode)

C24_Witness ==
    /\ env.blendSeparate
    /\ last.op = "draw"
    /\ last.blendMode = BlendAdd
    /\ gl.blendFunc = [sep |-> TRUE, mode |-> BlendAdd]
    /\ cache.lastBlendMode = BlendAdd
    /\ ~applyBlendMode(World, BlendMultiply).gl.blendFunc.sep

\* the calls that set a vertex attribute's pointer: the base is in a, the
\* byte offset in b; every call passes the stride sizeof(Vertex)
PointerNames == { Attributes[i][1] : i \in DOMAIN Attributes }

PointerCalls(r) ==
    { i \in DOMAIN r.log :
        r.log[i].f \in PointerNames \cup {"glVertexAttribPointerARB"} }

\* the attribute whose pointer the call number i of r sets: the generic
\* array enabled just before it, else the one the fixed-function call names
AttributeOf(r, i) ==
    IF r.log[i].f = "glVertexAttribPointerARB" THEN r.log[i - 1].a
    ELSE CHOOSE k \in DOMAIN Attributes : Attributes[k][1] = r.log[i].f

\* where the vertices of the draw d are
VertexSource(r, d) ==
    IF d[1].src = "buffer" THEN BaseNone
    ELSE IF PreTransformed(r) THEN BaseCache ELSE BaseArray

\* the draw sets all four pointers unless it is a pre-transformed draw that
\* finds cache.useVertexCache set (resetGLStates clears it), or its shader
\* lacks the attributes
SetsPointers(r, d) ==
    IF r.ds = NullShader
    THEN ~(PreTransformed(r) /\ cache.useVertexCache /\ ~ResetRuns(d))
    ELSE d[3].located

AttributeLayout(r, d) ==
    /\ \A i \in PointerCalls(r) :
          /\ r.log[i].a = VertexSource(r, d)
          /\ r.log[i].b = Attributes[AttributeOf(r, i)][3]
          /\ \A j \in CallsOf(r, "glDrawArrays") : i < j
    /\ { AttributeOf(r, i) : i \in PointerCalls(r) } =
          (IF SetsPointers(r, d) THEN DOMAIN Attributes ELSE {})

\* C25: every pointer an executed draw sets for a vertex attribute, on either
\* pipeline and for either source, has the attribute's byte offset (0, 12,
\* 16, 24) from the draw's vertex source: the caller's array or the vertex
\* cache for an array draw, offset 0 of the bound buffer for a buffer draw.
C25_AttributeLayout ==
    view # NoView =>
      \A d \in ExecutedDraws : AttributeLayout(DoDraw(World, d), d)

\* C26: after a resetGLStates whose activation succeeds the depth test of
\* the device is enabled iff m_depthTest is set, the argument of the last
\* enableDepthTest (false if there was none), whatever it was before.
C26_DepthTestRestored ==
    view # NoView =>
      \A lighting \in BOOLEAN :
         resetGLStates(World, TRUE, lighting).gl.depthTest = depthTest

\* the device at the draw call of the draw d: nothing after the draw call
\* changes the blend function or the texture unit
DeviceCoherent(r, d) ==
    /\ r.gl.blendFunc = BlendFuncFor(d[2].blendMode, env.blendSeparate)
    /\ r.ds = NullShader => r.gl.texture = d[2].texture

StatesSetFor(d) == cache.glStatesSet \/ d[3].act2

TextureUniforms(r, sh, tex) ==
    /\ r.uniforms[sh]["sf_TextureEnabled"] = (IF tex # 0 THEN 1 ELSE 0)
    /\ tex # 0 => r.uniforms[sh]["sf_Texture0"] = tex

\* C28: under the shader pipeline, at the draw call of every executed draw,
\* after any sequence of draws with the default or an override shader and of
\* resetGLStates, the effective shader has sf_TextureEnabled = 1 and the
\* submission's texture in sf_Texture0 when the submission has a texture,
\* and sf_TextureEnabled = 0 when it has none.
C28_TextureUniforms ==
    (view # NoView /\ defaultShader # NullShader) =>
      \A d \in ExecutedDraws :
         TextureUniforms(DoDraw(World, d), EffectiveShader(defaultShader, d[2]),
                         d[2].texture)

\* the transform a draw has to load: the identity when its vertices were
\* transformed into the vertex cache
ModelTransform(r, d) == IF PreTransformed(r) THEN 0 ELSE d[2].transform

\* C29: on the legacy pipeline, at the draw call of every executed draw, the
\* model-view matrix of the device is the view-transform of the target's
\* current view times the submission's transform, times the identity on the
\* pre-transform path, whatever draws and setView calls came before.
C29_ModelViewFromView ==
    (view # NoView /\ defaultShader = NullShader) =>
      \A d \in ExecutedDraws :
         DoDraw(World, d).gl.modelView =
            ViewTimes(DoDraw(World, d).view, ModelTransform(DoDraw(World, d), d))

\* getView() after an operation that ended in r returns what it returned
\* before the operation
ViewKept(r) == r.view = view

\* C31: no draw (the first draw after initialize included), clear,
\* pushGLStates, popGLStates or resetGLStates changes the view returned by
\* getView(): after each of them, whatever its activations return, the
\* current view is the one it was before, so the view installed with
\* setView is the one the next draw uses.
C31_OnlySetViewChangesView ==
    view # NoView =>
      /\ \A d \in AllDraws : ViewKept(DoDraw(World, d))
      /\ \A in \in Activations :
            /\ ViewKept(clear(World, TRUE, in))
            /\ ViewKept(pushGLStates(World, in))
            /\ ViewKept(popGLStates(World, in))
            /\ ViewKept(resetGLStates(World, in.act, in.lighting))

====
